---- MODULE Spec2Model ----
(***************************************************************************)
(* Verification model of the tally lint kernel (tinovyatkin/tally).        *)
(*                                                                         *)
(* The parts of this module share its variables; each has a specification  *)
(* of its own under which the other parts stay idle:                       *)
(*   - the fix engine (internal/fix): selection, ordering, conflict        *)
(*     detection and application of text edits (Spec, SpecEdits,           *)
(*     SpecReport);                                                        *)
(*   - the processor chain that lintFile runs on the violations            *)
(*     (SpecProc);                                                         *)
(*   - the per-stage shell tracking of hadolint/DL4006 and DL3004 with     *)
(*     the suggested fix applied and linted again (SpecShell, SpecSudo);   *)
(*   - the semantic builder and the stage-name-casing fix (SpecStages);    *)
(*   - parse and the max-lines check of one file (SpecFile);               *)
(*   - the LSP server's notification handlers (SpecLsp) and its            *)
(*     DocumentStore under concurrent callers (SpecStore);                 *)
(*   - acp.tailBuffer under concurrent writers (SpecTail);                 *)
(*   - tally/prefer-add-unpack and its WORKDIR trace (SpecUnpack);         *)
(*   - lintFile's rule loop and violation locations (SpecDispatch).        *)
(*                                                                         *)
(* internal/fix and internal/processor have no implementation file in the  *)
(* source tree at hand (only their tests and callers); their definitions   *)
(* follow spec.md sections 4.6 and 4.7 step by step.                       *)
(***************************************************************************)
EXTENDS Integers, Sequences, FiniteSets, TLC

VARIABLES
    \* ---- fix engine (one Fixer.Apply call on one file)
    pc,            \* "lint": violations are being handed over; "done": Apply returned
    violations,    \* the []Violation handed to Fixer.Apply
    threshold,     \* Fixer.SafetyThreshold
    ruleFilter,    \* Fixer.RuleFilter (a set; empty = no allowlist)
    modified,      \* FileChange.ModifiedContent
    fixesApplied,  \* FileChange.FixesApplied: indices of the violations whose fix was applied
    fixesSkipped,  \* FileChange.FixesSkipped: <<index, reason>> records
    \* ---- processor chain (lintFile)
    ppc,           \* "collect": rules are producing; "done": the chain has run
    produced,      \* violations as the rules produced them
    procCtx,       \* processor.Context: per-file configuration and the directives of the source
    emitted,       \* chain.Process(produced)
    emittedAlt,    \* chain.Process of the same violations produced in another order
    emittedTwice,  \* chain.Process(chain.Process(produced))
    \* ---- Dockerfile shell tracking / DL4006
    spc,           \* "write" | "linted" | "fixed" | "relinted" | "refixed"
    dockerfile,    \* the instructions of the file, one per line
    lintResult,    \* DL4006 violations of dockerfile
    fixedFile,     \* dockerfile after Fixer.Apply of lintResult
    relintResult,  \* DL4006 violations of fixedFile
    refixedFile,   \* fixedFile after a second Fixer.Apply
    sudoResult,    \* DL3004 violations of dockerfile (lines of the reported RUNs)
    \* ---- semantic builder: stages, aliases, references
    bpc,           \* "edit": the file is being written; "built": the model is built;
                   \* "fixed": the stage-name-casing fix has been applied
    stageList,     \* the stages of the file: alias, base name, COPY --from instructions
    semModel,      \* semantic.Model: alias table, per-stage references, construction issues
    casingFix,     \* the stage-name-casing fix: the reported stage and the fix's edits
    renamedList,   \* stageList after the fix
    \* ---- one file through parse and the max-lines check
    lpc,           \* "source": the content is being typed; "linted": the lint has run
    fileText,      \* source bytes of the file
    lintOut,       \* lintFile: the violations and the pipeline stages that ran
    maxLinesOut,   \* the max-lines rule: configuration used and violations
    \* ---- LSP server: document notifications and published diagnostics
    docs,          \* DocumentStore.docs: uri -> NoDoc or [version, content]
    published,     \* per uri, the diagnostics of the last publishDiagnostics notification
    closedSince,   \* per uri: didClose was handled and no didOpen since
    clientVersion, \* the version number of the client's latest edit
    lastNote,      \* the notification handled last
    \* ---- DocumentStore under concurrent callers (one URI)
    heap,          \* the Document objects allocated by Open; a *Document is an index
    slot,          \* s.docs[uri]: index into heap, 0 when absent
    storeMu,       \* s.mu: "free" | "writer" | "reader"
    writer,        \* the goroutine inside Update: its position and arguments
    reader,        \* the goroutine that called Get: its position, pointer and the version it read
    storeWrites,   \* number of Open and Update calls so far
    storedPairs,   \* <<version, content>> pairs handed to a single Open or Update
    observed,      \* <<version, content>> pairs a reader saw through a pointer from Get
    \* ---- acp.tailBuffer under concurrent writers
    tailLimit,     \* b.limit
    tailBuf,       \* b.buf
    tailMu,        \* b.mu: 0 when free, else the goroutine holding it
    tailCalls,     \* per goroutine: position, argument p and return value of its Write
    tailWritten,   \* every byte written, in the order the writes took effect
    tailString,    \* the latest String() call: its result and the bytes written before it
    \* ---- tally/prefer-add-unpack on one Dockerfile
    upc,           \* "write": the file is being written; "checked": the rule has run
    unpackFile,    \* the instructions of the file
    unpackOut,     \* the rule's violations with their fixes
    \* ---- lintFile's rule loop and the locations of what it emits
    dpc,           \* "setup" | "linted"
    lineCount,     \* number of lines of the linted file
    ruleRuns,      \* what each registered rule does on the file: panic, or violations at locations
    dispOut        \* outcome of lintFile and of the conversion to LSP diagnostics

fixVars   == <<pc, violations, threshold, ruleFilter, modified, fixesApplied, fixesSkipped>>
procVars  == <<ppc, produced, procCtx, emitted, emittedAlt, emittedTwice>>
shellVars == <<spc, dockerfile, lintResult, fixedFile, relintResult, refixedFile>>
stageVars == <<bpc, stageList, semModel, casingFix, renamedList>>
fileVars  == <<lpc, fileText, lintOut, maxLinesOut>>
extVars   == <<sudoResult, stageVars, fileVars>>
lspVars   == <<docs, published, closedSince, clientVersion, lastNote>>
storeVars == <<heap, slot, storeMu, writer, reader, storeWrites, storedPairs, observed>>
tailVars  == <<tailLimit, tailBuf, tailMu, tailCalls, tailWritten, tailString>>
unpackVars == <<upc, unpackFile, unpackOut>>
dispVars  == <<dpc, lineCount, ruleRuns, dispOut>>
srvVars   == <<lspVars, storeVars, tailVars, unpackVars, dispVars>>
vars      == <<fixVars, procVars, shellVars, extVars, srvVars>>

-----------------------------------------------------------------------------
(* Generic sequence helpers                                                *)

RECURSIVE SeqFilterIdx(_, _, _)
\* the indices i of 1..n, ascending, that satisfy keep[i]
SeqFilterIdx(keep, i, n) ==
    IF i > n THEN <<>>
    ELSE (IF keep[i] THEN <<i>> ELSE <<>>) \o SeqFilterIdx(keep, i + 1, n)

RECURSIVE FlattenSeq(_)
FlattenSeq(ss) == IF ss = <<>> THEN <<>> ELSE Head(ss) \o FlattenSeq(Tail(ss))

Range(s) == {s[i] : i \in 1..Len(s)}

-----------------------------------------------------------------------------
(* Fix engine: data                                                        *)

\* rules.FixSafety: Safe < Suggestion < Unsafe
FixSafe       == 0
FixSuggestion == 1
FixUnsafe     == 2
SafetyLevels  == {FixSafe, FixSuggestion, FixUnsafe}

\* fix.SkipReason
SkipSafety     == "Safety"
SkipRuleFilter == "RuleFilter"
SkipConflict   == "Conflict"
SkipInvalid    == "Invalid"

\* Bounds of the fix-engine model
SrcLen   == 3      \* bytes of the source under fix
MaxFixes == 3      \* violations handed to one Apply

\* The source bytes: pairwise distinct, so that every byte is identifiable.
Source == [i \in 1..SrcLen |-> i]
\* The byte every edit writes (distinct from every source byte).
NewByte == SrcLen + 1

TextEdit(s, e, t) == [start |-> s, end |-> e, text |-> t]

\* A violation; hasFix = FALSE is a nil SuggestedFix. needsResolve marks a
\* fix that an external resolver has yet to produce.
Violation(r, hf, sf, pr, ed) ==
    [rule |-> r, hasFix |-> hf, safety |-> sf, priority |-> pr, edits |-> ed,
     needsResolve |-> FALSE]

AsyncViolation(r, sf, pr) ==
    [rule |-> r, hasFix |-> TRUE, safety |-> sf, priority |-> pr, edits |-> <<>>,
     needsResolve |-> TRUE]

RuleCodes == {"rule1", "rule2"}

-----------------------------------------------------------------------------
(* Fix engine: the algorithm of spec.md 4.7                                *)

\* Two edits conflict when their byte ranges [start, end) share a byte or one
\* lies strictly inside the other.
editsOverlap(a, b) == a.start < b.end /\ b.start < a.end

fixesConflict(f, g) ==
    \E i \in 1..Len(f.edits), j \in 1..Len(g.edits) : editsOverlap(f.edits[i], g.edits[j])

\* step 5: start_byte <= end_byte <= len(source)
validEdit(e, n) == e.start <= e.end /\ e.end <= n

fixIsValid(f, n) == \A i \in 1..Len(f.edits) : validEdit(f.edits[i], n)

\* every safety level passes
passesAnySafety(f, th) == TRUE

\* step 1: safety <= threshold
passesSafety(f, th) == f.safety <= th

\* every rule passes
passesAnyRule(f, filter) == TRUE

\* step 2: the --fix-rule allowlist (empty: every rule passes)
passesRuleFilter(f, filter) == filter = {} \/ f.rule \in filter

\* step 3: priority desc, then start asc; ties keep the input order
fixStart(f) == IF f.edits = <<>> THEN 0 ELSE f.edits[1].start

\* source position only, priority ignored
fixBeforeByStart(vs, i, j) ==
    \/ fixStart(vs[i]) < fixStart(vs[j])
    \/ fixStart(vs[i]) = fixStart(vs[j]) /\ i < j

fixBefore(vs, i, j) ==
    \/ vs[i].priority > vs[j].priority
    \/ vs[i].priority = vs[j].priority /\ fixStart(vs[i]) < fixStart(vs[j])
    \/ vs[i].priority = vs[j].priority /\ fixStart(vs[i]) = fixStart(vs[j]) /\ i < j

RECURSIVE insertOrdered(_, _, _)
insertOrdered(vs, sorted, i) ==
    IF sorted = <<>> THEN <<i>>
    ELSE IF fixBefore(vs, i, Head(sorted)) THEN <<i>> \o sorted
    ELSE <<Head(sorted)>> \o insertOrdered(vs, Tail(sorted), i)

RECURSIVE orderFixes(_, _)
\* the candidate indices `cand` sorted by fixBefore
orderFixes(vs, cand) ==
    IF cand = <<>> THEN <<>>
    ELSE insertOrdered(vs, orderFixes(vs, Tail(cand)), Head(cand))

\* drops a fix that overlaps any fix ahead of it, kept or not
detectConflictsAgainstAll(vs, ordered, kept) ==
    LET free == [k \in 1..Len(ordered) |->
                    \A m \in 1..(k - 1) : ~fixesConflict(vs[ordered[k]], vs[ordered[m]])]
        idx  == SeqFilterIdx(free, 1, Len(ordered))
    IN  [k \in 1..Len(idx) |-> ordered[idx[k]]]

RECURSIVE detectConflicts(_, _, _)
\* step 4: walk the ordered candidates; one that overlaps an already kept fix
\* is dropped. Returns the kept indices, in order.
detectConflicts(vs, ordered, kept) ==
    IF ordered = <<>> THEN kept
    ELSE LET i == Head(ordered)
             clash == \E k \in 1..Len(kept) : fixesConflict(vs[i], vs[kept[k]])
         IN  detectConflicts(vs, Tail(ordered), IF clash THEN kept ELSE Append(kept, i))

\* applyEdit: replace bytes [start, end) of content by the new text
applyEdit(content, e) ==
    SubSeq(content, 1, e.start) \o e.text \o SubSeq(content, e.end + 1, Len(content))

\* reverse source order: the later range first; equal ranges keep their order
editAfter(a, b) == a.start > b.start \/ (a.start = b.start /\ a.end > b.end)

RECURSIVE insertEdit(_, _)
insertEdit(sorted, e) ==
    IF sorted = <<>> THEN <<e>>
    ELSE IF ~editAfter(Head(sorted), e) THEN <<e>> \o sorted
    ELSE <<Head(sorted)>> \o insertEdit(Tail(sorted), e)

RECURSIVE sortEditsReverse(_)
sortEditsReverse(es) ==
    IF es = <<>> THEN <<>>
    ELSE insertEdit(sortEditsReverse(Tail(es)), Head(es))

\* source order, first range first
RECURSIVE sortEditsForward(_)
sortEditsForward(es) ==
    IF es = <<>> THEN <<>>
    ELSE Append(sortEditsForward(Tail(sortEditsReverse(es))), Head(sortEditsReverse(es)))

\* the order in which the edits are carried out
sortEdits(es) == sortEditsReverse(es)

RECURSIVE applyEdits(_, _)
applyEdits(content, es) ==
    IF es = <<>> THEN content
    ELSE applyEdits(applyEdit(content, Head(es)), Tail(es))

\* the edits of the fixes `idx`, fix by fix
editsOf(vs, idx) == FlattenSeq([k \in 1..Len(idx) |-> vs[idx[k]].edits])

\* step 5, validation: of the fixes kept by conflict detection, those whose
\* edits are all valid (a fix is applied fully or not at all)
validFixes(vs, kept, n) ==
    LET valid == [k \in 1..Len(kept) |-> fixIsValid(vs[kept[k]], n)]
        idx   == SeqFilterIdx(valid, 1, Len(kept))
    IN  [k \in 1..Len(idx) |-> kept[idx[k]]]

\* the valid edits of every kept fix, whether or not its other edits are valid
editsToApplyPerEdit(vs, kept, n) ==
    FlattenSeq([k \in 1..Len(kept) |->
        LET es == vs[kept[k]].edits
            ok == SeqFilterIdx([a \in 1..Len(es) |-> validEdit(es[a], n)], 1, Len(es))
        IN  [a \in 1..Len(ok) |-> es[ok[a]]]])

\* the edits that are carried out
editsToApply(vs, kept, n) == editsOf(vs, validFixes(vs, kept, n))

\* records only the fixes dropped before apply time
skippedBeforeApply(hasFix, applied, reason) ==
    LET n       == Len(hasFix)
        skipIdx == SeqFilterIdx([i \in 1..n |-> hasFix[i] /\ i \notin Range(applied)
                                                /\ reason[i] # SkipInvalid], 1, n)
    IN  [k \in 1..Len(skipIdx) |-> <<skipIdx[k], reason[skipIdx[k]]>>]

\* step 6, fixes_skipped: every collected fix that was not applied, with
\* the reason of the step that dropped it
skippedFixes(hasFix, applied, reason) ==
    LET n       == Len(hasFix)
        skipIdx == SeqFilterIdx([i \in 1..n |-> hasFix[i] /\ i \notin Range(applied)], 1, n)
    IN  [k \in 1..Len(skipIdx) |-> <<skipIdx[k], reason[skipIdx[k]]>>]

\* Fixer.Apply on one file: the report {modified, applied, skipped}. The
\* fixes collected are the non-nil ones; those with needs_resolve are
\* dropped at collection and take no further part.
FixerApply(src, vs, th, filter) ==
    LET n        == Len(vs)
        hasFix   == [i \in 1..n |-> vs[i].hasFix /\ ~vs[i].needsResolve]
        safe     == [i \in 1..n |-> hasFix[i] /\ passesSafety(vs[i], th)]
        allowed  == [i \in 1..n |-> safe[i] /\ passesRuleFilter(vs[i], filter)]
        cand     == SeqFilterIdx(allowed, 1, n)
        ordered  == orderFixes(vs, cand)
        kept     == detectConflicts(vs, ordered, <<>>)
        keptSet  == Range(kept)
        applied  == validFixes(vs, kept, Len(src))
        edits    == editsToApply(vs, kept, Len(src))
        reason   == [i \in 1..n |->
                        IF ~safe[i] THEN SkipSafety
                        ELSE IF ~allowed[i] THEN SkipRuleFilter
                        ELSE IF i \notin keptSet THEN SkipConflict
                        ELSE SkipInvalid]
    IN  [modified |-> applyEdits(src, sortEdits(edits)),
         applied  |-> applied,
         skipped  |-> skippedFixes(hasFix, applied, reason)]

-----------------------------------------------------------------------------
(* Fix engine: the state machine                                           *)

\* Edit ranges the rules hand over: every start in the source, every end up
\* to one past it (end > len and start > end are the invalid ones).
EditRanges == {<<s, e>> \in (0..SrcLen) \X (0..SrcLen + 1) : TRUE}

NewTexts == {<<>>, <<NewByte, NewByte>>}

\* Inputs of Spec: every safety, rule and priority, on a few ranges that
\* overlap pairwise and in a chain.
ChainRanges == {<<s, e>> \in EditRanges : e = s + 2 \/ (s = SrcLen - 1 /\ e = SrcLen)}

SelFixes ==
    {Violation(r, TRUE, sf, pr, <<TextEdit(se[1], se[2], <<NewByte, NewByte>>)>>) :
        r \in RuleCodes, sf \in SafetyLevels, pr \in 0..1, se \in ChainRanges}
    \cup {Violation(r, FALSE, FixSafe, 0, <<>>) : r \in RuleCodes}

RuleFilters == {{}, {"rule1"}}

FixIdle ==
    /\ pc = "lint" /\ violations = <<>> /\ threshold = FixSafe /\ ruleFilter = {}
    /\ modified = Source /\ fixesApplied = <<>> /\ fixesSkipped = <<>>

ProcIdle ==
    /\ ppc = "collect" /\ produced = <<>>
    /\ procCtx = [severity |-> [c \in {"hadolint/DL3027", "hadolint/DL4006"} |-> "unset"],
                  disabled |-> {}, directives |-> {}]
    /\ emitted = <<>> /\ emittedAlt = <<>> /\ emittedTwice = <<>>

ShellIdle ==
    /\ spc = "write" /\ dockerfile = <<>> /\ lintResult = <<>>
    /\ fixedFile = <<>> /\ relintResult = <<>> /\ refixedFile = <<>>
    /\ sudoResult = {}

StageIdle ==
    /\ bpc = "edit" /\ stageList = <<>>
    /\ semModel = [byName |-> {}, baseRefs |-> <<>>, copyRefs |-> <<>>, issues |-> <<>>]
    /\ casingFix = [stage |-> -1, edits |-> {}] /\ renamedList = <<>>

FileIdle ==
    /\ lpc = "source" /\ fileText = <<>>
    /\ lintOut = [violations |-> <<>>, ran |-> {}]
    /\ maxLinesOut = [max |-> 0, skipBlankLines |-> FALSE, skipComments |-> FALSE,
                      violations |-> <<>>]

\* A rule hands over one more violation.
Report(v) ==
    /\ pc = "lint"
    /\ Len(violations) < MaxFixes
    /\ violations' = Append(violations, v)
    /\ UNCHANGED <<pc, threshold, ruleFilter, modified, fixesApplied, fixesSkipped>>
    /\ UNCHANGED <<procVars, shellVars>>
    /\ UNCHANGED extVars
    /\ UNCHANGED srvVars

\* fixer := &Fixer{SafetyThreshold: th, RuleFilter: filter}; fixer.Apply(...)
Apply(th, filter) ==
    /\ pc = "lint"
    /\ LET r == FixerApply(Source, violations, th, filter)
       IN  /\ modified' = r.modified
           /\ fixesApplied' = r.applied
           /\ fixesSkipped' = r.skipped
    /\ threshold' = th
    /\ ruleFilter' = filter
    /\ pc' = "done"
    /\ UNCHANGED violations
    /\ UNCHANGED <<procVars, shellVars>>
    /\ UNCHANGED extVars
    /\ UNCHANGED srvVars

\* Inputs of SpecEdits: safe fixes of one rule on every range, valid or not,
\* with one edit or two; the edits of one fix do not overlap each other
\* (spec.md 4.4, contract 3 on rules).
MaxEditFixes == 2

EditFixes ==
    {Violation("rule1", TRUE, FixSafe, pr, <<TextEdit(se[1], se[2], t)>>) :
        pr \in 0..1, se \in EditRanges, t \in NewTexts}
    \cup
    {Violation("rule1", TRUE, FixSafe, 0,
               <<TextEdit(p[1][1], p[1][2], t), TextEdit(p[2][1], p[2][2], t)>>) :
        p \in {q \in EditRanges \X EditRanges :
                  ~editsOverlap(TextEdit(q[1][1], q[1][2], <<>>), TextEdit(q[2][1], q[2][2], <<>>))
                  /\ q[1] # q[2]},
        t \in NewTexts}

ReportEdit ==
    /\ Len(violations) < MaxEditFixes
    /\ \E v \in EditFixes : Report(v)

ApplySafe == Apply(FixSafe, {})


-----------------------------------------------------------------------------
(* LSP server: document store, notifications, published diagnostics.       *)
(* RunStdio wraps the handler in jsonrpc2.AsyncHandler, under which a      *)
(* request starts once the previous one has replied: every handler runs    *)
(* from its first statement to its reply without another one in between.   *)

Uris == {"file:///a/Dockerfile", "file:///b/Dockerfile"}

\* Version numbers the client hands out (it counts its edits upwards)
MaxVersion == 3

\* Document texts; the empty text is what didSave carries when the client
\* does not include the text
Texts == {"", "FROM a", "MAINTAINER b"}

\* Absent key of DocumentStore.docs; Get returns nil for it
NoDoc == [version |-> -1, content |-> "nil"]

\* No publishDiagnostics notification has been sent for the URI yet
NotPublished == <<"(not published)">>

Document(version, content) == [version |-> version, content |-> content]

\* lintContent + convertDiagnostics on a document text: the deprecated
\* MAINTAINER instruction is reported, the other texts are clean
LintContent(content) ==
    IF content = "MAINTAINER b" THEN <<"buildkit/MaintainerDeprecated">> ELSE <<>>

\* DocumentStore.Open: adds or replaces
DocumentStoreOpen(d, uri, version, content) ==
    [d EXCEPT ![uri] = Document(version, content)]

\* DocumentStore.Update: no effect when the document is not open
DocumentStoreUpdate(d, uri, version, content) ==
    IF d[uri] = NoDoc THEN d ELSE [d EXCEPT ![uri] = Document(version, content)]

\* DocumentStore.Close
DocumentStoreClose(d, uri) == [d EXCEPT ![uri] = NoDoc]

\* DocumentStore.Get
DocumentStoreGet(d, uri) == d[uri]

\* publishDiagnostics: lint the document, notify the client
publishDiagnostics(pub, uri, doc) == [pub EXCEPT ![uri] = LintContent(doc.content)]

\* mutant of clearDiagnostics: nothing is sent
clearDiagnosticsSilent(pub, uri) == pub

\* clearDiagnostics: notify the client of an empty list
clearDiagnostics(pub, uri) == [pub EXCEPT ![uri] = <<>>]

\* The tail shared by didOpen, didChange and didSave:
\*   if doc := s.documents.Get(uri); doc != nil { s.publishDiagnostics(ctx, doc) }
publishIfOpen(d, pub, uri) ==
    IF DocumentStoreGet(d, uri) # NoDoc
    THEN publishDiagnostics(pub, uri, DocumentStoreGet(d, uri))
    ELSE pub

\* the loop of handleDidChange over params.ContentChanges
RECURSIVE applyChanges(_, _, _, _)
applyChanges(d, uri, version, changes) ==
    IF changes = <<>> THEN d
    ELSE applyChanges(DocumentStoreUpdate(d, uri, version, Head(changes)),
                      uri, version, Tail(changes))

\* handleDidSave's store step: the text, when included, is stored under version 0
saveText(d, uri, text) ==
    IF text # "" THEN DocumentStoreUpdate(d, uri, 0, text) ELSE d

LspIdle ==
    /\ docs = [u \in Uris |-> NoDoc]
    /\ published = [u \in Uris |-> NotPublished]
    /\ closedSince = [u \in Uris |-> FALSE]
    /\ clientVersion = 0
    /\ lastNote = [method |-> "initialize", uri |-> "", before |-> NotPublished, wasOpen |-> FALSE]

\* Goroutines calling tailBuffer.Write
TailWriters == {1, 2}

StoreIdle ==
    /\ heap = <<>> /\ slot = 0 /\ storeMu = "free"
    /\ writer = [pc |-> "idle", version |-> 0, content |-> ""]
    /\ reader = [pc |-> "idle", doc |-> 0, version |-> 0]
    /\ storeWrites = 0 /\ storedPairs = {} /\ observed = {}

TailIdle ==
    /\ tailLimit = 0 /\ tailBuf = <<>> /\ tailMu = 0
    /\ tailCalls = [w \in TailWriters |-> [pc |-> "new", p |-> <<>>, n |-> 0, calls |-> 0]]
    /\ tailWritten = <<>> /\ tailString = [value |-> <<>>, total |-> 0]

UnpackIdle ==
    /\ upc = "write" /\ unpackFile = <<>> /\ unpackOut = <<>>

DispIdle ==
    /\ dpc = "setup" /\ lineCount = 1 /\ ruleRuns = <<>>
    /\ dispOut = [crashed |-> FALSE, violations |-> <<>>, warnings |-> <<>>, diagnostics |-> <<>>]

SrvIdle == LspIdle /\ StoreIdle /\ TailIdle /\ UnpackIdle /\ DispIdle

Init == FixIdle /\ ProcIdle /\ ShellIdle /\ StageIdle /\ FileIdle /\ SrvIdle

ReportSel == \E v \in SelFixes : Report(v)
ApplyAny  == \E th \in SafetyLevels, filter \in RuleFilters : Apply(th, filter)

Next == ReportSel \/ ApplyAny

Spec == Init /\ [][Next]_vars

NextEdits == ReportEdit \/ ApplySafe

SpecEdits == Init /\ [][NextEdits]_vars

-----------------------------------------------------------------------------
(* Fix engine: properties                                                  *)

Done == pc = "done"
FixIdx == {i \in 1..Len(violations) : violations[i].hasFix}
AppliedSet == Range(fixesApplied)
SkippedWith(i, reason) == \E k \in 1..Len(fixesSkipped) : fixesSkipped[k] = <<i, reason>>
\* passes the safety threshold and the rule filter of the finished Apply
Eligible(i) ==
    /\ i \in FixIdx
    /\ violations[i].safety <= threshold
    /\ (ruleFilter = {} \/ violations[i].rule \in ruleFilter)
RangesMeet(a, b) == a.start < b.end /\ b.start < a.end
Meet(i, j) ==
    \E a \in 1..Len(violations[i].edits), b \in 1..Len(violations[j].edits) :
        RangesMeet(violations[i].edits[a], violations[j].edits[b])
\* no two edits applied in one pass overlap
NoAppliedOverlap ==
    \A i \in AppliedSet, j \in AppliedSet : i # j => ~Meet(i, j)

Ahead(i, j) ==
    \/ violations[i].priority > violations[j].priority
    \/ /\ violations[i].priority = violations[j].priority
       /\ violations[i].edits[1].start < violations[j].edits[1].start
    \/ /\ violations[i].priority = violations[j].priority
       /\ violations[i].edits[1].start = violations[j].edits[1].start
       /\ i < j
\* the fix came through conflict detection: it was applied, or dropped only
\* at apply time
Survived(i) == i \in AppliedSet \/ SkippedWith(i, SkipInvalid)

WithoutUnsafe ==
    [i \in 1..Len(violations) |->
        IF violations[i].hasFix /\ violations[i].safety > threshold
        THEN [violations[i] EXCEPT !.hasFix = FALSE]
        ELSE violations[i]]
C5_SafetyThreshold ==
    Done =>
        /\ \A i \in AppliedSet : violations[i].safety <= threshold
        /\ \A i \in FixIdx :
              violations[i].safety > threshold
              => /\ i \notin AppliedSet
                 /\ SkippedWith(i, SkipSafety)
                 /\ \A r \in {SkipRuleFilter, SkipConflict, SkipInvalid} : ~SkippedWith(i, r)
        /\ \A i \in FixIdx :
              SkippedWith(i, SkipSafety) => violations[i].safety > threshold
        /\ modified = FixerApply(Source, WithoutUnsafe, threshold, ruleFilter).modified
        /\ (\A i \in FixIdx : violations[i].safety > threshold) => modified = Source

\* C5 witness: one fix above the threshold skipped for Safety beside one at
\* the threshold that was applied.
C5_Witness ==
    /\ Done
    /\ \E i \in FixIdx, j \in FixIdx :
          /\ violations[i].safety > threshold /\ SkippedWith(i, SkipSafety)
          /\ violations[j].safety = threshold /\ j \in AppliedSet
          /\ Meet(i, j)

-----------------------------------------------------------------------------
(* Fix engine: what the edits mean on the original source                  *)

RECURSIVE InsertsAt(_, _, _)
\* the texts of the zero-width edits of es[k..] at byte offset i
InsertsAt(es, i, k) ==
    IF k > Len(es) THEN <<>>
    ELSE (IF es[k].start = i /\ es[k].end = i THEN es[k].text ELSE <<>>)
         \o InsertsAt(es, i, k + 1)

RECURSIVE SpliceFrom(_, _, _)
\* the source from byte offset i on, read left to right, with every edit of
\* es standing where its range [start, end) was in the original
SpliceFrom(src, es, i) ==
    LET rep == {k \in 1..Len(es) : es[k].start = i /\ es[k].end > i}
    IN  InsertsAt(es, i, 1) \o
        (IF rep # {}
         THEN LET k == CHOOSE k \in rep : TRUE
              IN  es[k].text \o SpliceFrom(src, es, es[k].end)
         ELSE IF i < Len(src) THEN <<src[i + 1]>> \o SpliceFrom(src, es, i + 1)
         ELSE <<>>)

AppliedEdits == editsOf(violations, fixesApplied)
InvalidFix(i) ==
    \E e \in Range(violations[i].edits) : ~(e.start <= e.end /\ e.end <= Len(Source))
SkipRecords(i) == {k \in 1..Len(fixesSkipped) : fixesSkipped[k][1] = i}

\* C2: the result is the original source with each surviving edit's
\* original range replaced by its new text, for every set of surviving
\* fixes, fixes of several edits included.
C2_EditsLandOnOriginalBytes ==
    Done => modified = SpliceFrom(Source, AppliedEdits, 0)

\* C2 witness: a fix of two edits and another fix both applied, each of the
\* three edits changing the length of what precedes the later ones.
C2_Witness ==
    /\ Done
    /\ \E i \in AppliedSet, j \in AppliedSet :
          /\ i # j
          /\ Len(violations[i].edits) = 2
          /\ \A e \in Range(violations[i].edits) \cup Range(violations[j].edits) :
                Len(e.text) # e.end - e.start
          /\ violations[j].edits[1].start > violations[i].edits[1].start
          /\ violations[j].edits[1].start < violations[i].edits[2].start
    /\ modified # Source

\* C3: a fix with an edit that fails start <= end <= len(source) is never
\* applied and none of its edits reaches the output; it is recorded once as
\* skipped, with reason Invalid whenever it reaches apply time (no surviving
\* fix ahead of it overlaps it); its violation stays in the list.
C3_InvalidFixIsAtomic ==
    Done =>
        \A i \in FixIdx :
            InvalidFix(i)
            => /\ i \notin AppliedSet
               /\ Cardinality(SkipRecords(i)) = 1
               /\ SkippedWith(i, SkipInvalid) \/ SkippedWith(i, SkipConflict)
               /\ (\A j \in FixIdx : ~(j # i /\ Meet(i, j) /\ Ahead(j, i) /\ Survived(j)))
                    => SkippedWith(i, SkipInvalid)
               /\ modified = SpliceFrom(Source, AppliedEdits, 0)
               /\ AppliedSet = {} => modified = Source
               /\ violations[i].hasFix

\* C3 witness: a fix with one valid and one invalid edit skipped as Invalid,
\* beside another fix that was applied.
C3_Witness ==
    /\ Done
    /\ \E i \in FixIdx :
          /\ Len(violations[i].edits) = 2
          /\ \E e \in Range(violations[i].edits) :
                e.start < e.end /\ e.end <= Len(Source)
          /\ InvalidFix(i)
          /\ SkippedWith(i, SkipInvalid)
    /\ AppliedSet # {}
    /\ modified # Source

-----------------------------------------------------------------------------
(* Processor chain (spec.md 4.6), as lintFile composes it                  *)

MaxProduced == 3     \* violations the rules produce for one file

File == "Dockerfile"
SeverityOff  == "off"
SeverityKeep == "unset"     \* no severity configured for the rule
DL3027 == "hadolint/DL3027"
DL4006 == "hadolint/DL4006"
UnusedIgnoreCode == "tally/unused-ignore"
\* lexicographic order of the rule codes in use
CodeRank == [c \in {DL3027, DL4006, UnusedIgnoreCode} |->
                IF c = DL3027 THEN 1 ELSE IF c = DL4006 THEN 2 ELSE 3]

\* rules.Violation as the processors see it: Location {File, Start, End},
\* RuleCode, Message, Severity
PViolation(l, c, ec, code, msg, sev) ==
    [file |-> File, line |-> l, col |-> c, endCol |-> ec,
     code |-> code, msg |-> msg, severity |-> sev]

\* An ignore directive in the comment at line `at`: it covers the next
\* instruction (line at + 1), or the whole file when global.
Directive(at, code, global) == [at |-> at, code |-> code, global |-> global]

suppresses(d, v) ==
    /\ d.code = "all" \/ d.code = v.code
    /\ d.global \/ v.line = d.at + 1

\* 1. SeverityOverride: per-rule severity from configuration; Off drops
SeverityOverride(vs, ctx) ==
    LET over(v) == IF v.code \in DOMAIN ctx.severity /\ ctx.severity[v.code] # SeverityKeep
                   THEN [v EXCEPT !.severity = ctx.severity[v.code]] ELSE v
        all == [i \in 1..Len(vs) |-> over(vs[i])]
    IN  SelectSeq(all, LAMBDA v : v.severity # SeverityOff)

\* 2. EnableFilter: drops violations of rules whose enable flag is false
EnableFilter(vs, ctx) == SelectSeq(vs, LAMBDA v : v.code \notin ctx.disabled)

RECURSIVE advisories(_)
\* one advisory per directive that matched nothing, in line order
advisories(ds) ==
    IF ds = {} THEN <<>>
    ELSE LET d == CHOOSE x \in ds : \A y \in ds : x.at <= y.at
         IN  <<PViolation(d.at, 0, 0, UnusedIgnoreCode, d.code, "warning")>>
             \o advisories(ds \ {d})

\* 3. InlineDirectiveFilter: drops the violations a directive covers and
\*    emits advisories for directives that matched nothing
InlineDirectiveFilter(vs, ctx) ==
    LET covered(v) == \E d \in ctx.directives : suppresses(d, v)
        unused == {d \in ctx.directives : \A i \in 1..Len(vs) : ~suppresses(d, vs[i])}
    IN  SelectSeq(vs, LAMBDA v : ~covered(v)) \o advisories(unused)

\* same rule code, same location, same message
sameViolation(a, b) ==
    /\ a.code = b.code
    /\ a.file = b.file /\ a.line = b.line /\ a.col = b.col /\ a.endCol = b.endCol
    /\ a.msg = b.msg

\* 4. Deduplication: exact duplicates are collapsed; the first wins
Deduplication(vs, ctx) ==
    LET first == [i \in 1..Len(vs) |-> \A j \in 1..(i - 1) : ~sameViolation(vs[j], vs[i])]
        idx   == SeqFilterIdx(first, 1, Len(vs))
    IN  [k \in 1..Len(idx) |-> vs[idx[k]]]

\* (file, start.line, start.column, rule_code), lexicographic
sortsBefore(a, b) ==
    \/ a.line < b.line
    \/ a.line = b.line /\ a.col < b.col
    \/ a.line = b.line /\ a.col = b.col /\ CodeRank[a.code] < CodeRank[b.code]

RECURSIVE insertSorted(_, _)
insertSorted(sorted, v) ==
    IF sorted = <<>> THEN <<v>>
    ELSE IF sortsBefore(v, Head(sorted)) THEN <<v>> \o sorted
    ELSE <<Head(sorted)>> \o insertSorted(Tail(sorted), v)

RECURSIVE Sorting(_, _)
\* 5. Sorting: equal keys keep their input order
Sorting(vs, ctx) ==
    IF vs = <<>> THEN <<>>
    ELSE insertSorted(Sorting(SubSeq(vs, 1, Len(vs) - 1), ctx), vs[Len(vs)])

\* the chain of lintFile, with one processor left out
chainWithoutDeduplication(vs, ctx) ==
    Sorting(InlineDirectiveFilter(EnableFilter(SeverityOverride(vs, ctx), ctx), ctx), ctx)
chainWithoutSorting(vs, ctx) ==
    Deduplication(InlineDirectiveFilter(EnableFilter(SeverityOverride(vs, ctx), ctx), ctx), ctx)

\* processor.NewChain(SeverityOverride, EnableFilter, InlineDirectiveFilter,
\* Deduplication, Sorting).Process(violations, procCtx)
chainProcess(vs, ctx) ==
    Sorting(Deduplication(InlineDirectiveFilter(
        EnableFilter(SeverityOverride(vs, ctx), ctx), ctx), ctx), ctx)

Reverse(s) == [i \in 1..Len(s) |-> s[Len(s) + 1 - i]]

\* Inputs: violations of two rules on the instructions at lines 2 and 4,
\* differing in column, end, message and severity
ProcViolations ==
    {PViolation(2, c, c, code, msg, sev) :
        c \in 0..1, code \in {DL3027, DL4006}, msg \in {"m1", "m2"}, sev \in {"warning", "error"}}
    \cup {PViolation(2, 0, 1, DL3027, "m1", "warning")}
    \cup {PViolation(4, 0, 0, code, "m1", "warning") : code \in {DL3027, DL4006}}

ProcContexts ==
    [severity   : [{DL3027, DL4006} -> {SeverityKeep}]
                  \cup {[c \in {DL3027, DL4006} |-> IF c = DL3027 THEN sv ELSE SeverityKeep] :
                           sv \in {SeverityOff, "error"}},
     disabled   : {{}, {DL4006}},
     directives : {{}, {Directive(1, DL3027, FALSE)}, {Directive(1, "all", FALSE)},
                   {Directive(1, DL4006, TRUE), Directive(3, DL4006, FALSE)}}]

\* a rule's Check returns one more violation
Produce ==
    /\ ppc = "collect"
    /\ Len(produced) < MaxProduced
    /\ \E v \in ProcViolations : produced' = Append(produced, v)
    /\ UNCHANGED <<ppc, procCtx, emitted, emittedAlt, emittedTwice>>
    /\ UNCHANGED <<fixVars, shellVars>>
    /\ UNCHANGED extVars
    /\ UNCHANGED srvVars

\* lintFile runs the chain; alongside, the chain on the same violations
\* produced in the opposite order, and the chain on its own output
Process ==
    /\ ppc = "collect"
    /\ \E ctx \in ProcContexts :
          /\ procCtx' = ctx
          /\ emitted' = chainProcess(produced, ctx)
          /\ emittedAlt' = chainProcess(Reverse(produced), ctx)
          /\ emittedTwice' = chainProcess(chainProcess(produced, ctx), ctx)
    /\ ppc' = "done"
    /\ UNCHANGED produced
    /\ UNCHANGED <<fixVars, shellVars>>
    /\ UNCHANGED extVars
    /\ UNCHANGED srvVars

NextProc == Produce \/ Process

SpecProc == Init /\ [][NextProc]_vars

-----------------------------------------------------------------------------
(* Processor chain: properties                                             *)

ProcDone == ppc = "done"
\* what reaches Deduplication: the output of the three filters before it
DedupInput ==
    InlineDirectiveFilter(EnableFilter(SeverityOverride(produced, procCtx), procCtx), procCtx)
DedupKey(v) == <<v.code, v.file, v.line, v.col, v.endCol, v.msg>>
SortKey(v)  == <<v.file, v.line, v.col, v.code>>
KeyLess(a, b) ==
    \/ a.line < b.line
    \/ a.line = b.line /\ a.col < b.col
    \/ a.line = b.line /\ a.col = b.col /\ CodeRank[a.code] < CodeRank[b.code]

\* C7 as stated: process(process(vs)) = process(vs).
C7_ChainIdempotent == ProcDone => emittedTwice = emitted

\* C8: violations with the same rule code, location and message are
\* collapsed into one, the first of them in input order is the one kept, and
\* no violation that differs in code, location or message is removed.
C8_Deduplication ==
    ProcDone =>
        LET pre == DedupInput
            isFirst(i) == \A j \in 1..(i - 1) : DedupKey(pre[j]) # DedupKey(pre[i])
        IN  /\ \A i, j \in 1..Len(emitted) :
                  i # j => DedupKey(emitted[i]) # DedupKey(emitted[j])
            /\ \A i \in 1..Len(pre) : isFirst(i) => pre[i] \in Range(emitted)
            /\ \A v \in Range(emitted) : \E i \in 1..Len(pre) : isFirst(i) /\ pre[i] = v
            /\ Len(emitted) = Cardinality({DedupKey(pre[i]) : i \in 1..Len(pre)})

\* C8 witness: two violations equal in code, location and message (they
\* differ in severity) and a third that differs in message only; the first
\* and the third are emitted, the second is not.
C8_Witness ==
    /\ ProcDone
    /\ Len(DedupInput) = 3
    /\ \E i, j, k \in 1..3 :
          /\ i < j
          /\ DedupKey(DedupInput[i]) = DedupKey(DedupInput[j])
          /\ DedupInput[i] # DedupInput[j]
          /\ SortKey(DedupInput[k]) = SortKey(DedupInput[i])
          /\ DedupInput[k].msg # DedupInput[i].msg
          /\ DedupInput[i] \in Range(emitted)
          /\ DedupInput[k] \in Range(emitted)
          /\ DedupInput[j] \notin Range(emitted)
    /\ Len(emitted) = 2

-----------------------------------------------------------------------------
(* Shell setting per stage and hadolint/DL4006                             *)

MaxLines == 5     \* instructions of the Dockerfile under lint

\* semantic.DefaultShell
DefaultShell == <<"/bin/sh", "-c">>

\* strings.TrimSuffix(strings.ToLower(path.Base(argv0)), ".exe") on the
\* shell paths in use
ShellBase ==
    [p \in {"/bin/sh", "/bin/bash", "/bin/zsh", "/bin/ASH.exe", "pwsh"} |->
        CASE p = "/bin/sh"      -> "sh"
          [] p = "/bin/bash"    -> "bash"
          [] p = "/bin/zsh"     -> "zsh"
          [] p = "/bin/ASH.exe" -> "ash"
          [] p = "pwsh"         -> "pwsh"]

pipefailValidShells == {"bash", "zsh", "ash"}

\* shell.VariantFromShell: inferred from the basename of argv[0]
VariantFromShell(p) ==
    LET b == ShellBase[p]
    IN  IF b \in {"bash", "zsh", "ash"} THEN b
        ELSE IF b \in {"pwsh", "powershell"} THEN "powershell"
        ELSE IF b = "cmd" THEN "cmd"
        ELSE "posix"

IsNonPOSIX(variant) == variant \in {"powershell", "cmd"}

\* instructions
From == [op |-> "FROM"]
ShellInstr(argv) == [op |-> "SHELL", shell |-> argv]
\* RUN: pipes is what the command line holds ("none", "pipe": a plain |,
\* "pipeamp": only |&); heredoc: prefer-run-heredoc is enabled and the
\* command is a heredoc candidate
RunInstr(pipes, prependShell, heredoc) ==
    [op |-> "RUN", pipes |-> pipes, prependShell |-> prependShell, heredoc |-> heredoc]

\* shell.HasPipes(script, variant): a | outside of the |& contexts the
\* variant recognizes
HasPipes(run, variant) ==
    \/ run.pipes = "pipe"
    \/ run.pipes = "pipeamp" /\ variant \notin {"bash", "zsh"}

\* index of the stage (1-based) instruction i belongs to
RECURSIVE stageOf(_, _)
stageOf(df, i) ==
    IF i = 0 THEN 0
    ELSE stageOf(df, i - 1) + (IF df[i].op = "FROM" THEN 1 ELSE 0)

\* semantic.StageInfo(stageIdx).ShellSetting after Build: newStageInfo's
\* default, updated by each SHELL instruction of the stage
stageShellSetting(df, stageIdx) ==
    LET shells == {i \in 1..Len(df) : df[i].op = "SHELL" /\ stageOf(df, i) = stageIdx}
        last   == CHOOSE i \in shells : \A j \in shells : j <= i
        argv   == IF shells = {} THEN DefaultShell ELSE df[last].shell
    IN  [shell |-> argv, variant |-> VariantFromShell(argv[1])]

isNonPOSIXShellCmd(shellCmd) ==
    IF Len(shellCmd) = 0 THEN FALSE ELSE IsNonPOSIX(VariantFromShell(shellCmd[1]))

\* a flag word of one dash whose letters include o
combinedFlagWithO(arg) == arg \in {"-o", "-eo"}

hasPipefailOption(shellCmd) ==
    IF Len(shellCmd) < 2 THEN FALSE
    ELSE IF ShellBase[shellCmd[1]] \notin pipefailValidShells THEN FALSE
    ELSE \E i \in 2..Len(shellCmd) :
            /\ shellCmd[i] = "-o" \/ combinedFlagWithO(shellCmd[i])
            /\ i + 1 <= Len(shellCmd)
            /\ shellCmd[i + 1] = "pipefail"

\* dl4006StageState
initStageState == [pipefailSet |-> FALSE, isNonPOSIX |-> FALSE]

\* once set, the pipefail bit stays set
updateFromShellSticky(state, shellCmd) ==
    IF isNonPOSIXShellCmd(shellCmd)
    THEN [pipefailSet |-> FALSE, isNonPOSIX |-> TRUE]
    ELSE [pipefailSet |-> state.pipefailSet \/ hasPipefailOption(shellCmd), isNonPOSIX |-> FALSE]

updateFromShell(state, shellCmd) ==
    IF isNonPOSIXShellCmd(shellCmd)
    THEN [pipefailSet |-> FALSE, isNonPOSIX |-> TRUE]
    ELSE [pipefailSet |-> hasPipefailOption(shellCmd), isNonPOSIX |-> FALSE]

\* the state Check holds when it reaches instruction i
RECURSIVE stateAt(_, _)
stateAt(df, i) ==
    IF i = 1 \/ df[i - 1].op = "FROM" THEN initStageState
    ELSE IF df[i - 1].op = "SHELL" THEN updateFromShell(stateAt(df, i - 1), df[i - 1].shell)
    ELSE stateAt(df, i - 1)

shellVariantForStage(df, stageIdx) == stageShellSetting(df, stageIdx).variant

\* the shell of the stage, whether or not it supports -o pipefail
stageShellAsIs(df, stageIdx) == stageShellSetting(df, stageIdx).shell[1]

determineFixShell(df, stageIdx) ==
    LET info == stageShellSetting(df, stageIdx)
    IN  IF Len(info.shell) > 0 /\ ShellBase[info.shell[1]] \in pipefailValidShells
        THEN info.shell[1]
        ELSE "/bin/bash"

\* the SHELL line generateFix writes, as the parser reads it back
pipefailShellLine(fixShell) == ShellInstr(<<fixShell, "-o", "pipefail", "-c">>)

\* the insertion placed after the RUN
generateFixAfterRun(df, i) ==
    IF ~df[i].prependShell \/ df[i].heredoc THEN <<>>
    ELSE <<TextEdit(i, i, <<pipefailShellLine(determineFixShell(df, stageOf(df, i)))>>)>>

\* the fix attached whatever the heredoc rule would do
generateFixAlways(df, i) ==
    IF ~df[i].prependShell THEN <<>>
    ELSE <<TextEdit(i - 1, i - 1, <<pipefailShellLine(determineFixShell(df, stageOf(df, i)))>>)>>

\* generateFix: a zero-width insertion at the start of the RUN at index i
generateFix(df, i) ==
    IF ~df[i].prependShell \/ df[i].heredoc THEN <<>>
    ELSE <<TextEdit(i - 1, i - 1, <<pipefailShellLine(determineFixShell(df, stageOf(df, i)))>>)>>

\* checkRun: TRUE when the RUN at index i gets a violation
checkRun(df, i) ==
    LET state == stateAt(df, i)
    IN  /\ ~(state.isNonPOSIX \/ ~df[i].prependShell \/ state.pipefailSet)
        /\ HasPipes(df[i], shellVariantForStage(df, stageOf(df, i)))

\* DL4006Rule.Check: the violations in instruction order
DL4006Check(df) ==
    LET hit == [i \in 1..Len(df) |-> df[i].op = "RUN" /\ checkRun(df, i)]
        idx == SeqFilterIdx(hit, 1, Len(df))
    IN  [k \in 1..Len(idx) |->
            [rule |-> DL4006, line |-> idx[k],
             hasFix |-> generateFix(df, idx[k]) # <<>>,
             safety |-> FixSuggestion, priority |-> 0,
             edits |-> generateFix(df, idx[k]), needsResolve |-> FALSE]]

ShellCmds ==
    {<<"/bin/sh", "-c">>, <<"/bin/sh", "-o", "pipefail", "-c">>,
     <<"/bin/bash", "-eo", "pipefail", "-c">>, <<"/bin/zsh", "-c">>,
     <<"/bin/ASH.exe", "-c">>, <<"pwsh", "-Command">>}

Instructions ==
    {From}
    \cup {ShellInstr(a) : a \in ShellCmds}
    \cup {RunInstr(p, TRUE, FALSE) : p \in {"none", "pipe", "pipeamp"}}
    \cup {RunInstr("pipe", FALSE, FALSE), RunInstr("pipe", TRUE, TRUE)}

\* the next instruction of the file; a Dockerfile starts with FROM
WriteLine ==
    /\ spc = "write"
    /\ Len(dockerfile) < MaxLines
    /\ \E ins \in Instructions :
          /\ dockerfile = <<>> => ins = From
          /\ dockerfile' = Append(dockerfile, ins)
    /\ UNCHANGED <<spc, lintResult, fixedFile, relintResult, refixedFile>>
    /\ UNCHANGED <<fixVars, procVars>>
    /\ UNCHANGED extVars
    /\ UNCHANGED srvVars

\* rule.Check(input) for DL4006
Lint ==
    /\ spc = "write"
    /\ dockerfile # <<>>
    /\ lintResult' = DL4006Check(dockerfile)
    /\ spc' = "linted"
    /\ UNCHANGED <<dockerfile, fixedFile, relintResult, refixedFile>>
    /\ UNCHANGED <<fixVars, procVars>>
    /\ UNCHANGED extVars
    /\ UNCHANGED srvVars

\* Fixer{SafetyThreshold: th}.Apply(violations, sources)
FixFile ==
    /\ spc = "linted"
    /\ \E th \in SafetyLevels :
          /\ threshold' = th
          /\ fixedFile' = FixerApply(dockerfile, lintResult, th, {}).modified
    /\ spc' = "fixed"
    /\ UNCHANGED <<dockerfile, lintResult, relintResult, refixedFile>>
    /\ UNCHANGED <<pc, violations, ruleFilter, modified, fixesApplied, fixesSkipped>>
    /\ UNCHANGED procVars
    /\ UNCHANGED extVars
    /\ UNCHANGED srvVars

\* the output is linted again
Relint ==
    /\ spc = "fixed"
    /\ relintResult' = DL4006Check(fixedFile)
    /\ spc' = "relinted"
    /\ UNCHANGED <<dockerfile, lintResult, fixedFile, refixedFile>>
    /\ UNCHANGED <<fixVars, procVars>>
    /\ UNCHANGED extVars
    /\ UNCHANGED srvVars

\* the engine runs on its own output with the same threshold
Refix ==
    /\ spc = "relinted"
    /\ refixedFile' = FixerApply(fixedFile, relintResult, threshold, {}).modified
    /\ spc' = "refixed"
    /\ UNCHANGED <<dockerfile, lintResult, fixedFile, relintResult>>
    /\ UNCHANGED <<fixVars, procVars>>
    /\ UNCHANGED extVars
    /\ UNCHANGED srvVars

NextShell == WriteLine \/ Lint \/ FixFile \/ Relint \/ Refix

SpecShell == Init /\ [][NextShell]_vars

-----------------------------------------------------------------------------
(* Shell setting and DL4006: properties                                    *)

\* the shell in effect at instruction i: that of the last SHELL before it
\* in its stage, the default when there is none
RECURSIVE ShellInEffect(_, _)
ShellInEffect(df, i) ==
    IF i = 1 \/ df[i - 1].op = "FROM" THEN DefaultShell
    ELSE IF df[i - 1].op = "SHELL" THEN df[i - 1].shell
    ELSE ShellInEffect(df, i - 1)

\* C4: the fix engine run on its own output, linted again, with the same
\* threshold changes nothing.
C4_FixIdempotent == spc = "refixed" => refixedFile = fixedFile

\* C4 witness: two RUNs with pipes got their SHELL line in the first pass
\* and the second pass had nothing left to do.
C4_Witness ==
    /\ spc = "refixed"
    /\ threshold = FixSuggestion
    /\ Len(lintResult) >= 2
    /\ Len(fixedFile) = Len(dockerfile) + 2
    /\ refixedFile = fixedFile

\* C10: every RUN is checked against the shell in effect at that RUN: the
\* RUN is reported exactly when that shell is a POSIX one without pipefail
\* and the command has a pipe for that shell's variant, and the SHELL line
\* of its fix names that shell when it supports pipefail, /bin/bash when it
\* does not; instructions before a SHELL keep the earlier setting, and
\* after every FROM the setting is the default again.
C10_ShellSeenByRun ==
    spc # "write" =>
        /\ \A i \in 1..Len(dockerfile) :
              (dockerfile[i].op = "RUN" /\ dockerfile[i].prependShell)
              => LET sh == ShellInEffect(dockerfile, i)
                     v  == VariantFromShell(sh[1])
                 IN  (\E k \in 1..Len(lintResult) : lintResult[k].line = i)
                     <=> ( /\ ~IsNonPOSIX(v)
                           /\ ~hasPipefailOption(sh)
                           /\ HasPipes(dockerfile[i], v) )
        /\ \A k \in 1..Len(lintResult) :
              lintResult[k].hasFix
              => LET sh == ShellInEffect(dockerfile, lintResult[k].line)
                 IN  lintResult[k].edits[1].text[1].shell[1] =
                        (IF ShellBase[sh[1]] \in pipefailValidShells THEN sh[1] ELSE "/bin/bash")

Linted == spc # "write"
FlaggedLines == {lintResult[k].line : k \in 1..Len(lintResult)}
ShellFormRuns == {i \in 1..Len(dockerfile) : dockerfile[i].op = "RUN" /\ dockerfile[i].prependShell}

AlpinePipe == <<From, RunInstr("pipe", TRUE, FALSE)>>

\* C13 as stated: one DL4006 violation at line 2 whose fix inserts
\* SHELL ["/bin/ash", "-o", "pipefail", "-c"] at line 2 before the RUN.
C13_AsStated ==
    (Linted /\ dockerfile = AlpinePipe) =>
        /\ Len(lintResult) = 1
        /\ lintResult[1].rule = DL4006 /\ lintResult[1].line = 2
        /\ lintResult[1].edits = <<TextEdit(1, 1, <<ShellInstr(<<"/bin/ash", "-o", "pipefail", "-c">>)>>)>>

\* C13 (amended): one DL4006 violation at line 2 whose fix (safety
\* Suggestion) inserts SHELL ["/bin/bash", "-o", "pipefail", "-c"] at line 2
\* before the RUN: the default shell /bin/sh does not support pipefail, so
\* the fix falls back to /bin/bash.
C13_AlpinePipeFix ==
    (Linted /\ dockerfile = AlpinePipe) =>
        /\ Len(lintResult) = 1
        /\ lintResult[1].rule = DL4006 /\ lintResult[1].line = 2
        /\ lintResult[1].hasFix /\ lintResult[1].safety = FixSuggestion
        /\ lintResult[1].edits = <<TextEdit(1, 1, <<ShellInstr(<<"/bin/bash", "-o", "pipefail", "-c">>)>>)>>
        /\ (spc \in {"fixed", "relinted", "refixed"} /\ threshold >= FixSuggestion)
              => fixedFile = <<From, ShellInstr(<<"/bin/bash", "-o", "pipefail", "-c">>),
                               RunInstr("pipe", TRUE, FALSE)>>

\* C13 witness: that file linted and fixed at threshold Suggestion.
C13_Witness ==
    /\ dockerfile = AlpinePipe
    /\ spc = "fixed" /\ threshold = FixSuggestion
    /\ Len(fixedFile) = 3

\* C14: a RUN that the heredoc rule would convert is still reported by
\* DL4006 but carries no fix; every other reported RUN carries the fix.
C14_HeredocSuppressesFix ==
    Linted =>
        /\ \A k \in 1..Len(lintResult) :
              lintResult[k].hasFix <=> ~dockerfile[lintResult[k].line].heredoc
        /\ \A k \in 1..Len(lintResult) :
              lintResult[k].hasFix <=> lintResult[k].edits # <<>>
        /\ \A i \in ShellFormRuns :
              ( /\ dockerfile[i].heredoc
                /\ i - 1 \in 1..Len(dockerfile) /\ dockerfile[i - 1].op = "FROM"
                /\ \A j \in (i + 1)..Len(dockerfile) : dockerfile[j].op # "SHELL" )
              => i \in FlaggedLines

\* C14 witness: a heredoc candidate and an ordinary piped RUN both
\* reported, the first without fix, the second with one.
C14_Witness ==
    /\ Linted
    /\ \E k, m \in 1..Len(lintResult) :
          /\ dockerfile[lintResult[k].line].heredoc /\ ~lintResult[k].hasFix
          /\ ~dockerfile[lintResult[m].line].heredoc /\ lintResult[m].hasFix

-----------------------------------------------------------------------------
(* DL3004 (sudo in RUN): a shell-analysis rule and the stage's shell       *)

\* RUN whose command line does or does not call sudo
SudoRun(sudo) == [op |-> "RUN", sudo |-> sudo]

\* shell.ContainsCommandWithVariant(cmdStr, "sudo", variant): the parsed
\* command line names sudo; the POSIX variants parse it alike
ContainsCommandWithVariant(run, name, variant) == name = "sudo" /\ run.sudo

\* DL3004Rule.Check: a stage whose ShellSetting variant is non-POSIX is
\* skipped as a whole; in every other stage each RUN with sudo is reported.
\* The result is the set of reported lines.
DL3004Check(df) ==
    {i \in 1..Len(df) :
        LET shellVariant == stageShellSetting(df, stageOf(df, i)).variant
        IN  /\ ~IsNonPOSIX(shellVariant)
            /\ df[i].op = "RUN"
            /\ ContainsCommandWithVariant(df[i], "sudo", shellVariant)}

SudoInstructions ==
    {From, SudoRun(TRUE), SudoRun(FALSE)}
    \cup {ShellInstr(a) : a \in {<<"pwsh", "-Command">>, <<"/bin/sh", "-c">>,
                                 <<"/bin/bash", "-c">>}}

WriteSudoLine ==
    /\ spc = "write"
    /\ Len(dockerfile) < MaxLines
    /\ \E ins \in SudoInstructions :
          /\ dockerfile = <<>> => ins = From
          /\ dockerfile' = Append(dockerfile, ins)
    /\ UNCHANGED <<spc, lintResult, fixedFile, relintResult, refixedFile, sudoResult>>
    /\ UNCHANGED <<fixVars, procVars, stageVars, fileVars, srvVars>>

\* rule.Check(input) for DL3004
LintSudo ==
    /\ spc = "write"
    /\ dockerfile # <<>>
    /\ sudoResult' = DL3004Check(dockerfile)
    /\ spc' = "linted"
    /\ UNCHANGED <<dockerfile, lintResult, fixedFile, relintResult, refixedFile>>
    /\ UNCHANGED <<fixVars, procVars, stageVars, fileVars, srvVars>>

NextSudo == WriteSudoLine \/ LintSudo

SpecSudo == Init /\ [][NextSudo]_vars

\* the stage of instruction i switches from a non-POSIX shell to a POSIX
\* one: SHELL a is non-POSIX and a later SHELL b of the same stage is POSIX
SwitchesBack(df, i) ==
    \E a, b \in 1..Len(df) :
        /\ a < b
        /\ df[a].op = "SHELL" /\ df[b].op = "SHELL"
        /\ stageOf(df, a) = stageOf(df, i) /\ stageOf(df, b) = stageOf(df, i)
        /\ isNonPOSIXShellCmd(df[a].shell)
        /\ ~isNonPOSIXShellCmd(df[b].shell)

\* C11: in a stage where a non-POSIX SHELL is later followed by a POSIX
\* SHELL, a RUN with sudo is not reported while the shell in effect at it
\* is the non-POSIX one and is reported once the shell in effect is POSIX
\* again.
C11_SuppressedBetweenShells ==
    spc = "linted" =>
        \A i \in 1..Len(dockerfile) :
            (dockerfile[i].op = "RUN" /\ dockerfile[i].sudo /\ SwitchesBack(dockerfile, i))
            => (i \in sudoResult <=> ~isNonPOSIXShellCmd(ShellInEffect(dockerfile, i)))

-----------------------------------------------------------------------------
(* Semantic builder: stages, alias table, FROM and COPY --from references  *)
(* (spec 4.3; the duplicate-name and self-reference helpers are hadolint's) *)

MaxStages == 3

DL3023Code == "hadolint/DL3023"
DL3024Code == "hadolint/DL3024"

NoAlias == ""
\* spellings a Dockerfile of the model uses for stage names and images
StageNames == {"Build", "build"}
ImageNames == {"alpine"}

\* strings.ToLower on the spellings
Lower(n) == IF n = "Build" THEN "build" ELSE n

\* strings.EqualFold
EqualFold(a, b) == Lower(a) = Lower(b)

\* COPY --from=<from>; flagOnFirstLine: the flag stands on the first
\* physical line of the instruction (FALSE: after a line continuation)
CopyFrom(from, flagOnFirstLine) == [from |-> from, flagOnFirstLine |-> flagOnFirstLine]

\* instructions.Stage: FROM <base> [AS <alias>] and the stage's COPY --from
\* instructions
Stage(alias, base, copies) == [alias |-> alias, base |-> base, copies |-> copies]

\* the alias table is a set of <<lowercased name, stage index>> with one
\* pair per name
HasName(stagesByName, name) == \E p \in stagesByName : p[1] = name
IndexOf(stagesByName, name) == (CHOOSE p \in stagesByName : p[1] = name)[2]

DL3024Message(stageName, existingStageIndex) ==
    <<"Stage name ", stageName, " is already used on stage ", existingStageIndex>>

DL3023Message(stageName, copyFrom) ==
    <<"COPY --from=", copyFrom, " references its own stage ", stageName>>

\* no name counts as already registered
CheckDuplicateNever(stageName, stagesByName) == <<0, FALSE>>

\* CheckDuplicateStageName: <<index, found>>
CheckDuplicateStageName(stageName, stagesByName) ==
    IF HasName(stagesByName, stageName)
    THEN <<IndexOf(stagesByName, stageName), TRUE>>
    ELSE <<0, FALSE>>

\* any COPY --from that names a stage of the table
IsAnyStageCopy(currentStageIndex, copyFrom, stageNames) == HasName(stageNames, copyFrom)

IsSelfReferencingCopy(currentStageIndex, copyFrom, stageNames) ==
    HasName(stageNames, copyFrom) /\ IndexOf(stageNames, copyFrom) = currentStageIndex

\* BaseImageRef / CopyFromRef: StageIndex is -1 when the name is no stage
BaseImageRef(raw, stagesByName) ==
    LET found == HasName(stagesByName, Lower(raw))
    IN  [raw |-> raw, isStageRef |-> found,
         stageIndex |-> IF found THEN IndexOf(stagesByName, Lower(raw)) ELSE -1]

CopyFromRef(from, stagesByName) ==
    LET found == HasName(stagesByName, Lower(from))
    IN  [from |-> from, isStageRef |-> found,
         stageIndex |-> IF found THEN IndexOf(stagesByName, Lower(from)) ELSE -1]

Issue(code, stage, message) == [code |-> code, stage |-> stage, message |-> message]

\* the alias table after stage idx has declared its alias: a new name is
\* bound to idx, a name already bound keeps its first binding
registerAlias(stagesByName, alias, idx) ==
    IF alias = NoAlias \/ CheckDuplicateStageName(Lower(alias), stagesByName)[2]
    THEN stagesByName
    ELSE stagesByName \cup {<<Lower(alias), idx>>}

\* issues of the alias of stage idx
aliasIssues(stagesByName, alias, idx) ==
    LET dup == CheckDuplicateStageName(Lower(alias), stagesByName)
    IN  IF alias # NoAlias /\ dup[2]
        THEN <<Issue(DL3024Code, idx, DL3024Message(Lower(alias), dup[1]))>>
        ELSE <<>>

\* issues of the COPY --from instructions of stage idx, in order
RECURSIVE copyIssues(_, _, _, _)
copyIssues(stagesByName, alias, copies, idx) ==
    IF copies = <<>> THEN <<>>
    ELSE (IF IsSelfReferencingCopy(idx, Lower(Head(copies).from), stagesByName)
          THEN <<Issue(DL3023Code, idx, DL3023Message(alias, Head(copies).from))>>
          ELSE <<>>)
         \o copyIssues(stagesByName, alias, Tail(copies), idx)

\* one step of the builder's walk: stage number idx (0-based) of the file.
\* The base is resolved against the stages declared before it, then the
\* alias is registered, then the stage's instructions are walked.
buildStage(m, st, idx) ==
    LET table == registerAlias(m.byName, st.alias, idx)
    IN  [byName   |-> table,
         baseRefs |-> Append(m.baseRefs, BaseImageRef(st.base, m.byName)),
         copyRefs |-> Append(m.copyRefs,
                             [k \in 1..Len(st.copies) |-> CopyFromRef(st.copies[k].from, table)]),
         issues   |-> m.issues \o aliasIssues(m.byName, st.alias, idx)
                               \o copyIssues(table, st.alias, st.copies, idx)]

EmptyModel == [byName |-> {}, baseRefs |-> <<>>, copyRefs |-> <<>>, issues |-> <<>>]

\* semantic.NewModel: the walk over the first n stages
RECURSIVE buildUpTo(_, _)
buildUpTo(stages, n) ==
    IF n = 0 THEN EmptyModel
    ELSE buildStage(buildUpTo(stages, n - 1), stages[n], n - 1)

NewModel(stages) == buildUpTo(stages, Len(stages))

\* Model.StageIndexByName: <<index, found>>
StageIndexByName(m, name) ==
    IF HasName(m.byName, Lower(name)) THEN <<IndexOf(m.byName, Lower(name)), TRUE>>
    ELSE <<-1, FALSE>>

\* findCopyFromValue on the first physical line of the COPY: the value is
\* found only when the --from flag stands on that line
findCopyFromValue(copy) == copy.flagOnFirstLine

\* createStageDefEdit: the alias of the stage that StageIndexByName found
createStageDefEdit(stages, stageIdx, stageName) ==
    IF stages[stageIdx + 1].alias # NoAlias /\ EqualFold(stages[stageIdx + 1].alias, stageName)
    THEN {<<"alias", stageIdx, 0>>}
    ELSE {}

\* createFromRefEdit for stage i
createFromRefEdit(stages, sem, i, stageIdx, stageName) ==
    IF /\ sem.baseRefs[i + 1].isStageRef
       /\ sem.baseRefs[i + 1].stageIndex = stageIdx
       /\ EqualFold(stages[i + 1].base, stageName)
    THEN {<<"base", i, 0>>}
    ELSE {}

\* createCopyFromEdits for stage i
createCopyFromEdits(stages, sem, i, stageIdx, stageName) ==
    {<<"copy", i, k>> : k \in
        {k \in 1..Len(stages[i + 1].copies) :
            /\ sem.copyRefs[i + 1][k].isStageRef
            /\ sem.copyRefs[i + 1][k].stageIndex = stageIdx
            /\ findCopyFromValue(stages[i + 1].copies[k])
            /\ EqualFold(stages[i + 1].copies[k].from, stageName)}}

\* collectStageRefEdits
collectStageRefEdits(stages, sem, stageIdx, stageName) ==
    UNION {createFromRefEdit(stages, sem, i, stageIdx, stageName)
           \cup createCopyFromEdits(stages, sem, i, stageIdx, stageName)
           : i \in 0..(Len(stages) - 1)}

\* enrichStageNameCasingFix for the warning "Stage name '<stageName>' should
\* be lowercase": the places the fix rewrites to the lowercase name
enrichStageNameCasingFix(stages, sem, stageName) ==
    LET r == StageIndexByName(sem, stageName)
    IN  IF ~r[2] THEN {}
        ELSE createStageDefEdit(stages, r[1], stageName)
             \cup collectStageRefEdits(stages, sem, r[1], stageName)

\* the file after the edits: each edited name replaced by lowerName
applyCasingEdits(stages, edits, lowerName) ==
    [i \in 1..Len(stages) |->
        Stage(IF <<"alias", i - 1, 0>> \in edits THEN lowerName ELSE stages[i].alias,
              IF <<"base", i - 1, 0>> \in edits THEN lowerName ELSE stages[i].base,
              [k \in 1..Len(stages[i].copies) |->
                  CopyFrom(IF <<"copy", i - 1, k>> \in edits THEN lowerName
                           ELSE stages[i].copies[k].from,
                           stages[i].copies[k].flagOnFirstLine)])]

StageChoices ==
    {Stage(a, b, c) :
        a \in {NoAlias} \cup StageNames,
        b \in ImageNames \cup StageNames,
        c \in {<<>>} \cup {<<CopyFrom(f, l)>> : f \in ImageNames \cup StageNames, l \in BOOLEAN}}

\* the next stage of the file
AddStage ==
    /\ bpc = "edit"
    /\ Len(stageList) < MaxStages
    /\ \E st \in StageChoices : stageList' = Append(stageList, st)
    /\ UNCHANGED <<bpc, semModel, casingFix, renamedList>>
    /\ UNCHANGED <<fixVars, procVars, shellVars, sudoResult, fileVars, srvVars>>

\* semantic.NewModel(parseResult, ...)
BuildModel ==
    /\ bpc = "edit"
    /\ stageList # <<>>
    /\ semModel' = NewModel(stageList)
    /\ bpc' = "built"
    /\ UNCHANGED <<stageList, casingFix, renamedList>>
    /\ UNCHANGED <<fixVars, procVars, shellVars, sudoResult, fileVars, srvVars>>

\* BuildKit's StageNameCasing warning on stage s (0-based), enriched with
\* its fix, and the fix applied
ApplyCasingFix ==
    /\ bpc = "built"
    /\ \E s \in 0..(Len(stageList) - 1) :
          LET name == stageList[s + 1].alias
              edits == enrichStageNameCasingFix(stageList, semModel, name)
          IN  /\ name # NoAlias /\ name # Lower(name)
              /\ casingFix' = [stage |-> s, edits |-> edits]
              /\ renamedList' = applyCasingEdits(stageList, edits, Lower(name))
    /\ bpc' = "fixed"
    /\ UNCHANGED <<stageList, semModel>>
    /\ UNCHANGED <<fixVars, procVars, shellVars, sudoResult, fileVars, srvVars>>

NextStages == AddStage \/ BuildModel \/ ApplyCasingFix

SpecStages == Init /\ [][NextStages]_vars

-----------------------------------------------------------------------------
(* Semantic builder: properties                                            *)

Built == bpc # "edit"
StageIdxs == 0..(Len(stageList) - 1)

\* stages that declare the name, whatever its case
Declaring(name) ==
    {i \in StageIdxs : stageList[i + 1].alias # NoAlias /\ EqualFold(stageList[i + 1].alias, name)}

\* the first stage that declares the name, -1 when no stage does
FirstDeclaring(name) ==
    IF Declaring(name) = {} THEN -1
    ELSE CHOOSE i \in Declaring(name) : \A j \in Declaring(name) : i <= j

IssuesAt(code, stage) ==
    {n \in 1..Len(semModel.issues) :
        semModel.issues[n].code = code /\ semModel.issues[n].stage = stage}

\* C15: a stage whose alias equals, ignoring case, the alias of an earlier
\* stage gets exactly one hadolint/DL3024 issue, which names the index of
\* the first stage that declared the alias, and the alias table still
\* resolves the alias to that first stage.
C15_DuplicateAliasKeepsFirst ==
    Built =>
        \A j \in StageIdxs :
            LET a == stageList[j + 1].alias
            IN  (a # NoAlias /\ FirstDeclaring(a) < j)
                => /\ Cardinality(IssuesAt(DL3024Code, j)) = 1
                   /\ \A n \in IssuesAt(DL3024Code, j) :
                         semModel.issues[n].message[4] = FirstDeclaring(a)
                   /\ StageIndexByName(semModel, a) = <<FirstDeclaring(a), TRUE>>

\* C15 witness: Build declared by stage 0 and again, as build, by stage 1;
\* stage 1 carries the issue naming stage 0.
C15_Witness ==
    /\ Built
    /\ Len(stageList) >= 2
    /\ stageList[1].alias = "Build" /\ stageList[2].alias = "build"
    /\ \E n \in IssuesAt(DL3024Code, 1) : semModel.issues[n].message[4] = 0
    /\ StageIndexByName(semModel, "build") = <<0, TRUE>>

\* C16: a stage carries one hadolint/DL3023 issue for each of its
\* COPY --from whose value, ignoring case, is the alias this very stage was
\* the first to declare, and none for a COPY --from that names another
\* stage or an image.
C16_SelfReferencingCopy ==
    Built =>
        \A i \in StageIdxs :
            Cardinality(IssuesAt(DL3023Code, i)) =
                Cardinality({k \in 1..Len(stageList[i + 1].copies) :
                                FirstDeclaring(stageList[i + 1].copies[k].from) = i})

\* C16 witness: a stage whose COPY --from names the stage itself in another
\* case is reported, and a COPY --from naming an earlier stage is not.
C16_Witness ==
    /\ Built
    /\ \E i, j \in StageIdxs :
          /\ stageList[i + 1].alias = "build"
          /\ stageList[i + 1].copies # <<>>
          /\ stageList[i + 1].copies[1].from = "Build"
          /\ IssuesAt(DL3023Code, i) # {}
          /\ i < j
          /\ stageList[j + 1].copies # <<>>
          /\ semModel.copyRefs[j + 1][1].stageIndex = i
          /\ IssuesAt(DL3023Code, j) = {}

\* C17: every stage index recorded in a BaseImageRef or a CopyFromRef is
\* strictly smaller than the index of the stage that holds the reference.
C17_RefsPointBackwards ==
    Built =>
        \A i \in StageIdxs :
            /\ semModel.baseRefs[i + 1].isStageRef => semModel.baseRefs[i + 1].stageIndex < i
            /\ \A k \in 1..Len(semModel.copyRefs[i + 1]) :
                  semModel.copyRefs[i + 1][k].isStageRef
                  => semModel.copyRefs[i + 1][k].stageIndex < i

\* C18: after the stage-name-casing fix for a stage, the stage's alias is
\* the lowercase name, and every FROM and every COPY --from that refers to
\* that stage spells the name exactly as the rewritten stage definition.
C18_CasingFixKeepsReferences ==
    bpc = "fixed" =>
        LET r == casingFix.stage
            alias == renamedList[r + 1].alias
        IN  /\ alias = Lower(stageList[r + 1].alias)
            /\ \A i \in StageIdxs :
                  /\ (semModel.baseRefs[i + 1].isStageRef /\ semModel.baseRefs[i + 1].stageIndex = r)
                     => renamedList[i + 1].base = alias
                  /\ \A k \in 1..Len(stageList[i + 1].copies) :
                        (semModel.copyRefs[i + 1][k].isStageRef
                         /\ semModel.copyRefs[i + 1][k].stageIndex = r)
                        => renamedList[i + 1].copies[k].from = alias

-----------------------------------------------------------------------------
(* One file through parse, the max-lines check and lintFile                *)

MaxChars == 5
MaxLimit == 2

\* bytes of a Dockerfile: "F" a byte of a valid instruction, "?" a byte of
\* an unknown instruction keyword, "#", a space and the newline
NL == "\n"
Bytes == {"F", "?", "#", " ", NL}

\* strings.TrimSpace(line) = ""
IsBlankLine(line) == \A k \in 1..Len(line) : line[k] = " "

\* strings.HasPrefix(strings.TrimSpace(line), "#")
IsCommentLine(line) ==
    \E k \in 1..Len(line) : line[k] = "#" /\ \A j \in 1..(k - 1) : line[j] = " "

\* countLines: the scanner's loop over the bytes. cur is the line being
\* read, open tells whether a line has begun since the last newline; a
\* final line without newline is a line, the empty rest after the last
\* newline is not.
RECURSIVE scanLines(_, _, _, _)
scanLines(text, cur, open, stats) ==
    LET count(line) ==
            [total    |-> stats.total + 1,
             blank    |-> stats.blank + (IF IsBlankLine(line) THEN 1 ELSE 0),
             comments |-> stats.comments
                          + (IF ~IsBlankLine(line) /\ IsCommentLine(line) THEN 1 ELSE 0)]
    IN  IF text = <<>> THEN (IF open THEN count(cur) ELSE stats)
        ELSE IF Head(text) = NL THEN scanLines(Tail(text), <<>>, FALSE, count(cur))
        ELSE scanLines(Tail(text), Append(cur, Head(text)), TRUE, stats)

countLines(text) == scanLines(text, <<>>, FALSE, [total |-> 0, blank |-> 0, comments |-> 0])

\* parser.Parse and instructions.Parse succeed: no line holds an unknown
\* instruction and the file holds at least one instruction
RECURSIVE splitLines(_, _)
splitLines(text, cur) ==
    IF text = <<>> THEN (IF cur = <<>> THEN <<>> ELSE <<cur>>)
    ELSE IF Head(text) = NL THEN <<cur>> \o splitLines(Tail(text), <<>>)
    ELSE splitLines(Tail(text), Append(cur, Head(text)))

IsInstructionLine(line) == ~IsBlankLine(line) /\ ~IsCommentLine(line)

ParseSucceeds(text) ==
    LET ls == splitLines(text, <<>>)
    IN  /\ \E n \in 1..Len(ls) : IsInstructionLine(ls[n])
        /\ \A n \in 1..Len(ls) :
              IsInstructionLine(ls[n]) => \A k \in 1..Len(ls[n]) : ls[n][k] # "?"

\* dockerfile.Parse: the ParseResult's line counts, or the error
Parse(text) ==
    IF ParseSucceeds(text)
    THEN [err |-> FALSE, TotalLines |-> countLines(text).total,
          BlankLines |-> countLines(text).blank, CommentLines |-> countLines(text).comments]
    ELSE [err |-> TRUE, TotalLines |-> 0, BlankLines |-> 0, CommentLines |-> 0]

MaxLinesMessage(n, m) == <<"file has ", n, " lines, maximum allowed is ", m>>

\* a file-level issue: line 0
MaxLinesIssue(n, m) ==
    [rule |-> "max-lines", line |-> 0, message |-> MaxLinesMessage(n, m), severity |-> "error"]

\* reports a file that is exactly at the limit
CheckMaxLinesAtLimit(result, maxLines) ==
    IF result.TotalLines >= maxLines
    THEN <<MaxLinesIssue(result.TotalLines, maxLines)>>
    ELSE <<>>

\* lint.CheckMaxLines
CheckMaxLines(result, maxLines) ==
    IF result.TotalLines > maxLines
    THEN <<MaxLinesIssue(result.TotalLines, maxLines)>>
    ELSE <<>>

\* the max-lines rule with its options: blank and comment lines are left
\* out of the count when the option says so; Max = 0 disables the rule
MaxLinesConfig(max, skipBlankLines, skipComments) ==
    [max |-> max, skipBlankLines |-> skipBlankLines, skipComments |-> skipComments]

countedLines(result, cfg) ==
    result.TotalLines
    - (IF cfg.skipBlankLines THEN result.BlankLines ELSE 0)
    - (IF cfg.skipComments THEN result.CommentLines ELSE 0)

MaxLinesRuleCheck(result, cfg) ==
    IF cfg.max = 0 THEN <<>>
    ELSE IF countedLines(result, cfg) > cfg.max
    THEN <<MaxLinesIssue(countedLines(result, cfg), cfg.max)>>
    ELSE <<>>

MaxLinesConfigs ==
    {MaxLinesConfig(m, b, c) : m \in 0..MaxLimit, b \in BOOLEAN, c \in BOOLEAN}

PipelineStages == {"parse", "semantic", "rules", "processors"}

\* the next byte of the file
TypeByte ==
    /\ lpc = "source"
    /\ Len(fileText) < MaxChars
    /\ \E b \in Bytes : fileText' = Append(fileText, b)
    /\ UNCHANGED <<lpc, lintOut, maxLinesOut>>
    /\ UNCHANGED <<fixVars, procVars, shellVars, sudoResult, stageVars, srvVars>>

\* lintFile(filePath, content) under a configuration of the max-lines
\* rule: a parse error is logged and nil is returned; otherwise the model
\* is built, the rules run and the chain processes their violations
LintFile ==
    /\ lpc = "source"
    /\ \E cfg \in MaxLinesConfigs :
          LET parseResult == Parse(fileText)
          IN  IF parseResult.err
              THEN /\ lintOut' = [violations |-> <<>>, ran |-> {"parse"}]
                   /\ UNCHANGED maxLinesOut
              ELSE /\ lintOut' = [violations |-> MaxLinesRuleCheck(parseResult, cfg),
                                  ran |-> PipelineStages]
                   /\ maxLinesOut' = [max |-> cfg.max, skipBlankLines |-> cfg.skipBlankLines,
                                      skipComments |-> cfg.skipComments,
                                      violations |-> MaxLinesRuleCheck(parseResult, cfg)]
    /\ lpc' = "linted"
    /\ UNCHANGED fileText
    /\ UNCHANGED <<fixVars, procVars, shellVars, sudoResult, stageVars, srvVars>>

\* checkCommand --max-lines maxLines: a parse error ends the command;
\* 0 means unlimited
CheckCommand ==
    /\ lpc = "source"
    /\ \E maxLines \in 0..MaxLimit :
          LET parseResult == Parse(fileText)
          IN  IF parseResult.err
              THEN UNCHANGED maxLinesOut
              ELSE maxLinesOut' = [max |-> maxLines, skipBlankLines |-> FALSE,
                                   skipComments |-> FALSE,
                                   violations |-> IF maxLines > 0
                                                  THEN CheckMaxLines(parseResult, maxLines)
                                                  ELSE <<>>]
    /\ lpc' = "checked"
    /\ UNCHANGED <<fileText, lintOut>>
    /\ UNCHANGED <<fixVars, procVars, shellVars, sudoResult, stageVars, srvVars>>

NextFile == TypeByte \/ LintFile \/ CheckCommand

SpecFile == Init /\ [][NextFile]_vars

-----------------------------------------------------------------------------
(* Max-lines and parse errors: properties                                  *)

\* positions where a line of the file begins: the first byte and every
\* byte that follows a newline
LineStarts == {p \in 1..Len(fileText) : p = 1 \/ fileText[p - 1] = NL}

\* the bytes of the line that begins at p, up to its newline
LineBytes(p) ==
    {q \in p..Len(fileText) : \A j \in p..q : fileText[j] # NL}

BlankStarts == {p \in LineStarts : \A q \in LineBytes(p) : fileText[q] = " "}

CommentStarts ==
    {p \in LineStarts :
        \E q \in LineBytes(p) : fileText[q] = "#" /\ \A j \in p..(q - 1) : fileText[j] = " "}

\* the number of lines the rule counts under the configuration in use
Counted ==
    Cardinality(LineStarts)
    - (IF maxLinesOut.skipBlankLines THEN Cardinality(BlankStarts) ELSE 0)
    - (IF maxLinesOut.skipComments THEN Cardinality(CommentStarts) ELSE 0)

MaxLinesRan == lpc \in {"linted", "checked"} /\ ParseSucceeds(fileText)

\* C19: on a file that parses, max-lines with maximum M reports exactly
\* one file-level violation, with message "file has N lines, maximum
\* allowed is M", when M > 0 and the counted number of lines N is greater
\* than M, and nothing otherwise: nothing at exactly M lines, nothing
\* when M = 0.
C19_MaxLines ==
    MaxLinesRan =>
        maxLinesOut.violations =
            (IF maxLinesOut.max > 0 /\ Counted > maxLinesOut.max
             THEN <<[rule |-> "max-lines", line |-> 0, severity |-> "error",
                     message |-> <<"file has ", Counted, " lines, maximum allowed is ",
                                   maxLinesOut.max>>]>>
             ELSE <<>>)

\* C19 witness: a file of three lines under a maximum of two is reported
\* with "file has 3 lines, maximum allowed is 2".
C19_Witness ==
    /\ MaxLinesRan
    /\ maxLinesOut.max = 2 /\ Counted = 3
    /\ Len(maxLinesOut.violations) = 1
    /\ maxLinesOut.violations[1].message = MaxLinesMessage(3, 2)

\* C20: when the source fails to parse, the lint emits exactly one
\* violation, a file-level error with code parse/invalid-syntax, and no
\* later pipeline stage has run.
C20_ParseErrorIsOneViolation ==
    (lpc = "linted" /\ ~ParseSucceeds(fileText)) =>
        /\ Len(lintOut.violations) = 1
        /\ lintOut.violations[1].rule = "parse/invalid-syntax"
        /\ lintOut.violations[1].line = 0
        /\ lintOut.violations[1].severity = "error"
        /\ lintOut.ran = {"parse"}

-----------------------------------------------------------------------------
(* Fix engine: the per-file report                                         *)

\* Inputs of SpecReport: fixes of every safety on ranges that overlap or
\* reach past the source, fixes still to be resolved, and violations
\* without a fix
ReportRanges == {<<0, 2>>, <<1, 3>>, <<SrcLen - 1, SrcLen + 1>>}

ReportFixes ==
    {Violation(r, TRUE, sf, 0, <<TextEdit(se[1], se[2], <<NewByte>>)>>) :
        r \in RuleCodes, sf \in SafetyLevels, se \in ReportRanges}
    \cup {AsyncViolation(r, FixSafe, 0) : r \in RuleCodes}
    \cup {Violation("rule1", FALSE, FixSafe, 0, <<>>)}

ReportAny == \E v \in ReportFixes : Report(v)

NextReport == ReportAny \/ ApplyAny

SpecReport == Init /\ [][NextReport]_vars

\* how often fix i is listed as applied, and as skipped
TimesApplied(i) == Cardinality({k \in 1..Len(fixesApplied) : fixesApplied[k] = i})
TimesSkipped(i) == Cardinality({k \in 1..Len(fixesSkipped) : fixesSkipped[k][1] = i})

-----------------------------------------------------------------------------
(* LSP server: the notification handlers                                   *)

Note(method, uri) ==
    [method |-> method, uri |-> uri, before |-> published[uri], wasOpen |-> docs[uri] # NoDoc]

\* textDocument/didOpen
handleDidOpen(uri, text) ==
    /\ clientVersion < MaxVersion
    /\ clientVersion' = clientVersion + 1
    /\ docs' = DocumentStoreOpen(docs, uri, clientVersion', text)
    /\ published' = publishIfOpen(docs', published, uri)
    /\ closedSince' = [closedSince EXCEPT ![uri] = FALSE]
    /\ lastNote' = Note("didOpen", uri)
    /\ UNCHANGED <<fixVars, procVars, shellVars, extVars>>
    /\ UNCHANGED <<storeVars, tailVars, unpackVars, dispVars>>

\* textDocument/didChange (the client may also send it for a document it
\* has closed; the server must cope)
handleDidChange(uri, changes) ==
    /\ clientVersion < MaxVersion
    /\ clientVersion' = clientVersion + 1
    /\ docs' = applyChanges(docs, uri, clientVersion', changes)
    /\ published' = publishIfOpen(docs', published, uri)
    /\ lastNote' = Note("didChange", uri)
    /\ UNCHANGED closedSince
    /\ UNCHANGED <<fixVars, procVars, shellVars, extVars>>
    /\ UNCHANGED <<storeVars, tailVars, unpackVars, dispVars>>

\* textDocument/didSave
handleDidSave(uri, text) ==
    /\ docs' = saveText(docs, uri, text)
    /\ published' = publishIfOpen(docs', published, uri)
    /\ lastNote' = Note("didSave", uri)
    /\ UNCHANGED <<closedSince, clientVersion>>
    /\ UNCHANGED <<fixVars, procVars, shellVars, extVars>>
    /\ UNCHANGED <<storeVars, tailVars, unpackVars, dispVars>>

\* textDocument/didClose
handleDidClose(uri) ==
    /\ docs' = DocumentStoreClose(docs, uri)
    /\ published' = clearDiagnostics(published, uri)
    /\ closedSince' = [closedSince EXCEPT ![uri] = TRUE]
    /\ lastNote' = Note("didClose", uri)
    /\ UNCHANGED clientVersion
    /\ UNCHANGED <<fixVars, procVars, shellVars, extVars>>
    /\ UNCHANGED <<storeVars, tailVars, unpackVars, dispVars>>

ChangeLists == {<<>>} \cup {<<t>> : t \in Texts} \cup {<<"FROM a", "MAINTAINER b">>}

DidOpen == \E u \in Uris, t \in Texts : handleDidOpen(u, t)
DidChange == \E u \in Uris, c \in ChangeLists : handleDidChange(u, c)
DidSave == \E u \in Uris, t \in Texts : handleDidSave(u, t)
DidClose == \E u \in Uris : handleDidClose(u)

NextLsp == DidOpen \/ DidChange \/ DidSave \/ DidClose

SpecLsp == Init /\ [][NextLsp]_vars

\* C24: once didClose has been handled for a URI, and until it is opened
\* again, the document is not in the store and the last diagnostics
\* notification published for the URI is the empty list
C24_ClosedMeansCleared ==
    \A u \in Uris :
        closedSince[u] => /\ DocumentStoreGet(docs, u) = NoDoc
                          /\ published[u] = <<>>

\* a document has been closed and a stray
\* didChange for it has been handled since
C24_Witness ==
    \E u \in Uris :
        /\ closedSince[u]
        /\ lastNote.method = "didChange" /\ lastNote.uri = u
        /\ clientVersion = MaxVersion

\* C30: the version stored for an open document never decreases
C30_VersionNeverDecreases ==
    [][\A u \in Uris :
          (docs[u] # NoDoc /\ docs'[u] # NoDoc) => docs'[u].version >= docs[u].version]_vars

-----------------------------------------------------------------------------
(* DocumentStore under concurrent callers.  One goroutine opens, updates   *)
(* and closes the document of one URI while another holds what Get         *)
(* returned.  Get hands out the *Document stored in the map; Update        *)
(* assigns the fields of that same object.  The caller of Get reads the    *)
(* fields after Get has released the read lock.                            *)

\* Number of Open and Update calls of a run
MaxStoreWrites == 3

StoreTexts == {"FROM a", "FROM b"}

\* DocumentStore.Open: a new object replaces the map entry, under s.mu.Lock
StoreOpen(content) ==
    /\ storeMu = "free" /\ writer.pc = "idle"
    /\ storeWrites < MaxStoreWrites
    /\ storeWrites' = storeWrites + 1
    /\ heap' = Append(heap, Document(storeWrites', content))
    /\ slot' = Len(heap')
    /\ storedPairs' = storedPairs \cup {<<storeWrites', content>>}
    /\ UNCHANGED <<storeMu, writer, reader, observed>>
    /\ UNCHANGED <<fixVars, procVars, shellVars, extVars>>
    /\ UNCHANGED <<lspVars, tailVars, unpackVars, dispVars>>

\* DocumentStore.Update, first part: s.mu.Lock(); doc, ok := s.docs[uri];
\* if !ok { return false }
StoreUpdateLock(content) ==
    /\ storeMu = "free" /\ writer.pc = "idle"
    /\ storeWrites < MaxStoreWrites
    /\ storeWrites' = storeWrites + 1
    /\ IF slot = 0
       THEN UNCHANGED <<storeMu, writer, storedPairs>>
       ELSE /\ storeMu' = "writer"
            /\ writer' = [pc |-> "version", version |-> storeWrites', content |-> content]
            /\ storedPairs' = storedPairs \cup {<<storeWrites', content>>}
    /\ UNCHANGED <<heap, slot, reader, observed>>
    /\ UNCHANGED <<fixVars, procVars, shellVars, extVars>>
    /\ UNCHANGED <<lspVars, tailVars, unpackVars, dispVars>>

\* DocumentStore.Update: doc.Version = version
StoreUpdateVersion ==
    /\ writer.pc = "version"
    /\ heap' = [heap EXCEPT ![slot].version = writer.version]
    /\ writer' = [writer EXCEPT !.pc = "content"]
    /\ UNCHANGED <<slot, storeMu, reader, storeWrites, storedPairs, observed>>
    /\ UNCHANGED <<fixVars, procVars, shellVars, extVars>>
    /\ UNCHANGED <<lspVars, tailVars, unpackVars, dispVars>>

\* DocumentStore.Update: doc.Content = content; return true (deferred Unlock)
StoreUpdateContent ==
    /\ writer.pc = "content"
    /\ heap' = [heap EXCEPT ![slot].content = writer.content]
    /\ writer' = [writer EXCEPT !.pc = "idle"]
    /\ storeMu' = "free"
    /\ UNCHANGED <<slot, reader, storeWrites, storedPairs, observed>>
    /\ UNCHANGED <<fixVars, procVars, shellVars, extVars>>
    /\ UNCHANGED <<lspVars, tailVars, unpackVars, dispVars>>

\* DocumentStore.Close: delete(s.docs, uri), under s.mu.Lock
StoreClose ==
    /\ storeMu = "free" /\ writer.pc = "idle"
    /\ slot # 0
    /\ slot' = 0
    /\ UNCHANGED <<heap, storeMu, writer, reader, storeWrites, storedPairs, observed>>
    /\ UNCHANGED <<fixVars, procVars, shellVars, extVars>>
    /\ UNCHANGED <<lspVars, tailVars, unpackVars, dispVars>>

\* DocumentStore.Get: RLock; return s.docs[uri]; RUnlock.  A nil result
\* leaves the caller with nothing to read.
StoreGet ==
    /\ storeMu = "free" /\ reader.pc = "idle"
    /\ slot # 0
    /\ reader' = [pc |-> "got", doc |-> slot, version |-> 0]
    /\ UNCHANGED <<heap, slot, storeMu, writer, storeWrites, storedPairs, observed>>
    /\ UNCHANGED <<fixVars, procVars, shellVars, extVars>>
    /\ UNCHANGED <<lspVars, tailVars, unpackVars, dispVars>>

\* the caller of Get reads doc.Version
ReadVersion ==
    /\ reader.pc = "got"
    /\ reader' = [reader EXCEPT !.pc = "versionRead", !.version = heap[reader.doc].version]
    /\ UNCHANGED <<heap, slot, storeMu, writer, storeWrites, storedPairs, observed>>
    /\ UNCHANGED <<fixVars, procVars, shellVars, extVars>>
    /\ UNCHANGED <<lspVars, tailVars, unpackVars, dispVars>>

\* the caller of Get reads doc.Content (as publishDiagnostics does)
ReadContent ==
    /\ reader.pc = "versionRead"
    /\ observed' = observed \cup {<<reader.version, heap[reader.doc].content>>}
    /\ reader' = [pc |-> "idle", doc |-> 0, version |-> 0]
    /\ UNCHANGED <<heap, slot, storeMu, writer, storeWrites, storedPairs>>
    /\ UNCHANGED <<fixVars, procVars, shellVars, extVars>>
    /\ UNCHANGED <<lspVars, tailVars, unpackVars, dispVars>>

OpenAny == \E c \in StoreTexts : StoreOpen(c)
UpdateAny == \E c \in StoreTexts : StoreUpdateLock(c)

NextStore ==
    \/ OpenAny \/ UpdateAny \/ StoreUpdateVersion \/ StoreUpdateContent \/ StoreClose
    \/ StoreGet \/ ReadVersion \/ ReadContent

SpecStore == Init /\ [][NextStore]_vars

\* C26: a reader that obtained a document through Get never observes a
\* version/content pair that was not stored together by a single Open or
\* Update
C26_ReaderSeesStoredPairs == observed \subseteq storedPairs

-----------------------------------------------------------------------------
(* acp.tailBuffer: an io.Writer that keeps the last N bytes, written to by *)
(* several goroutines.                                                     *)

\* Limits handed to newTailBuffer
TailLimits == -1 .. 3

TailBytes == {"a", "b"}

\* Longest argument of one Write
MaxWriteLen == 2

\* Write calls of a run, over all goroutines
MaxTailCalls == 3

TailArgs == UNION {[1..k -> TailBytes] : k \in 0..MaxWriteLen}

\* mutant of tailWrite: an overlong write keeps its first bytes
tailWriteKeepsHead(buf, limit, p) ==
    IF Len(p) >= limit THEN SubSeq(p, 1, limit) ELSE buf \o p

\* tailBuffer.Write between Lock and Unlock: the new b.buf
tailWrite(buf, limit, p) ==
    LET n == Len(p) IN
    IF n >= limit
    THEN SubSeq(p, n - limit + 1, n)
    ELSE LET space == limit - Len(buf) IN
         IF n <= space
         THEN buf \o p
         ELSE LET drop == n - space IN
              SubSeq(buf, drop + 1, Len(buf)) \o p

TailCallsMade == tailCalls[1].calls + tailCalls[2].calls

\* newTailBuffer(limit)
NewTailBuffer(limit) ==
    /\ \A w \in TailWriters : tailCalls[w].pc = "new"
    /\ tailLimit' = IF limit < 0 THEN 0 ELSE limit
    /\ tailCalls' = [w \in TailWriters |-> [tailCalls[w] EXCEPT !.pc = "idle"]]
    /\ UNCHANGED <<tailBuf, tailMu, tailWritten, tailString>>
    /\ UNCHANGED <<fixVars, procVars, shellVars, extVars>>
    /\ UNCHANGED <<lspVars, storeVars, unpackVars, dispVars>>

\* Write(p), up to the lock: n := len(p); if b.limit == 0 || n == 0 { return n, nil }
WriteEnter(w, p) ==
    /\ tailCalls[w].pc = "idle"
    /\ TailCallsMade < MaxTailCalls
    /\ IF tailLimit = 0 \/ Len(p) = 0
       THEN /\ tailCalls' = [tailCalls EXCEPT ![w] =
                               [pc |-> "idle", p |-> p, n |-> Len(p), calls |-> @.calls + 1]]
            /\ tailWritten' = tailWritten \o p
       ELSE /\ tailCalls' = [tailCalls EXCEPT ![w] =
                               [pc |-> "lock", p |-> p, n |-> -1, calls |-> @.calls + 1]]
            /\ UNCHANGED tailWritten
    /\ UNCHANGED <<tailLimit, tailBuf, tailMu, tailString>>
    /\ UNCHANGED <<fixVars, procVars, shellVars, extVars>>
    /\ UNCHANGED <<lspVars, storeVars, unpackVars, dispVars>>

\* b.mu.Lock()
WriteLock(w) ==
    /\ tailCalls[w].pc = "lock"
    /\ tailMu = 0
    /\ tailMu' = w
    /\ tailCalls' = [tailCalls EXCEPT ![w].pc = "locked"]
    /\ UNCHANGED <<tailLimit, tailBuf, tailWritten, tailString>>
    /\ UNCHANGED <<fixVars, procVars, shellVars, extVars>>
    /\ UNCHANGED <<lspVars, storeVars, unpackVars, dispVars>>

\* the body of Write and the deferred Unlock
WriteBody(w) ==
    /\ tailCalls[w].pc = "locked"
    /\ tailMu = w
    /\ tailBuf' = tailWrite(tailBuf, tailLimit, tailCalls[w].p)
    /\ tailWritten' = tailWritten \o tailCalls[w].p
    /\ tailCalls' = [tailCalls EXCEPT ![w].pc = "idle", ![w].n = Len(tailCalls[w].p)]
    /\ tailMu' = 0
    /\ UNCHANGED <<tailLimit, tailString>>
    /\ UNCHANGED <<fixVars, procVars, shellVars, extVars>>
    /\ UNCHANGED <<lspVars, storeVars, unpackVars, dispVars>>

\* String(): under the lock, string(b.buf)
TailStringCall ==
    /\ \A w \in TailWriters : tailCalls[w].pc # "new"
    /\ tailMu = 0
    /\ tailString' = [value |-> tailBuf, total |-> Len(tailWritten)]
    /\ UNCHANGED <<tailLimit, tailBuf, tailMu, tailCalls, tailWritten>>
    /\ UNCHANGED <<fixVars, procVars, shellVars, extVars>>
    /\ UNCHANGED <<lspVars, storeVars, unpackVars, dispVars>>

NewTail == \E l \in TailLimits : NewTailBuffer(l)
WriteCall == \E w \in TailWriters, p \in TailArgs : WriteEnter(w, p)
WriteLocks == \E w \in TailWriters : WriteLock(w)
WriteBodies == \E w \in TailWriters : WriteBody(w)

NextTail == NewTail \/ WriteCall \/ WriteLocks \/ WriteBodies \/ TailStringCall

SpecTail == Init /\ [][NextTail]_vars

\* the last k elements of s
LastBytes(s, k) == SubSeq(s, Len(s) - k + 1, Len(s))

Min(a, b) == IF a < b THEN a ELSE b

\* C27: a tailBuffer with limit N retains only the last N bytes written:
\* String() returns exactly the last min(N, total) bytes in the order the
\* writes took effect, the buffer never holds more than N bytes, and every
\* Write that has returned reported len(p)
C27_TailRetainsLastN ==
    /\ Len(tailBuf) <= tailLimit
    /\ tailString.value =
          LastBytes(SubSeq(tailWritten, 1, tailString.total), Min(tailLimit, tailString.total))
    /\ tailMu = 0 => tailBuf = LastBytes(tailWritten, Min(tailLimit, Len(tailWritten)))
    /\ \A w \in TailWriters : tailCalls[w].pc = "idle" => tailCalls[w].n = Len(tailCalls[w].p)

\* with limit 3, a byte has been dropped from the front of a part-filled
\* buffer while the other goroutine waits for the lock, and String() has
\* returned a full buffer that spans two writes
C27_Witness ==
    /\ tailLimit = 3
    /\ Len(tailWritten) = 4
    /\ tailString = [value |-> LastBytes(tailWritten, 3), total |-> 4]
    /\ \E w \in TailWriters : tailCalls[w].pc = "idle" /\ tailCalls[w].n = 2
                              /\ tailCalls[w].calls = 2
    /\ \E w \in TailWriters : tailCalls[w].pc = "lock"

-----------------------------------------------------------------------------
(* tally/prefer-add-unpack: the WORKDIR trace of Check and the destination *)
(* of the ADD --unpack fix.  A path is its list of components and whether  *)
(* it starts with a slash; a RUN is what the shell parser reports of its   *)
(* script: the command names, the archive URLs of its download commands    *)
(* and its tar commands.  Stages run a POSIX shell.                        *)

\* Instructions of the Dockerfile under check
MaxUnpackLines == 5

Path(abs, comps) == [abs |-> abs, comps |-> comps]

\* "/"
RootDir == Path(TRUE, <<>>)

\* "" as returned by shell.TarDestination when tar names no directory
NoDest == Path(FALSE, <<>>)

RECURSIVE cleanFrom(_, _)
\* path.Clean on a rooted path, component by component: "." and empty
\* components go, ".." removes the component before it and is dropped at
\* the root
cleanFrom(stack, comps) ==
    IF comps = <<>> THEN stack
    ELSE LET c == Head(comps) IN
         cleanFrom(IF c \in {".", ""} THEN stack
                   ELSE IF c = ".."
                        THEN (IF stack = <<>> THEN <<>> ELSE SubSeq(stack, 1, Len(stack) - 1))
                        ELSE Append(stack, c),
                   Tail(comps))

\* path.Clean of a rooted path
Clean(p) == Path(TRUE, cleanFrom(<<>>, p.comps))

\* path.Join(workdir, p) for a rooted workdir: the elements joined by a
\* slash, then Clean
Join(workdir, p) == Clean(Path(TRUE, workdir.comps \o p.comps))

FromInstr == [kind |-> "FROM"]
Workdir(p) == [kind |-> "WORKDIR", path |-> p]
Tar(extract, dest) == [extract |-> extract, dest |-> dest]
Run(names, urls, tars) == [kind |-> "RUN", names |-> names, urls |-> urls, tars |-> tars]

\* mutant of enterStage: the directory of the previous stage is kept
enterStageCarried(workdir) == workdir

\* Check, at the top of each stage: workdir := "/"
enterStage(workdir) == RootDir

\* Check, on a WorkdirCommand
applyWorkdir(workdir, p) ==
    IF p.abs THEN Clean(p) ELSE Join(workdir, p)

\* hasRemoteArchiveExtraction: a download command with an archive URL and
\* a tar command that extracts
hasRemoteArchiveExtraction(run) ==
    /\ run.urls # {}
    /\ \E i \in 1..Len(run.tars) : run.tars[i].extract

allowedFixCommands == {"curl", "wget", "tar"}

RECURSIVE firstTarDestination(_, _)
\* extractFixData's loop over tarCmds: the first non-empty TarDestination,
\* else the default
firstTarDestination(tars, default) ==
    IF tars = <<>> THEN default
    ELSE IF Head(tars).dest # NoDest THEN Head(tars).dest
    ELSE firstTarDestination(Tail(tars), default)

\* mutant of extractFixData: the destination defaults to "/"
extractFixDataRoot(run, workdir) ==
    IF /\ run.names \subseteq allowedFixCommands
       /\ Cardinality(run.urls) = 1
       /\ run.tars # <<>>
    THEN [ok |-> TRUE, url |-> CHOOSE u \in run.urls : TRUE,
          dest |-> firstTarDestination(run.tars, RootDir)]
    ELSE [ok |-> FALSE, url |-> "", dest |-> NoDest]

\* extractFixData: only download and tar commands, one archive URL, a tar
\* command; the destination defaults to workdir
extractFixData(run, workdir) ==
    IF /\ run.names \subseteq allowedFixCommands
       /\ Cardinality(run.urls) = 1
       /\ run.tars # <<>>
    THEN [ok |-> TRUE, url |-> CHOOSE u \in run.urls : TRUE,
          dest |-> firstTarDestination(run.tars, workdir)]
    ELSE [ok |-> FALSE, url |-> "", dest |-> NoDest]

\* buildAddUnpackFix: NewText "ADD --unpack " + url + " " + dest, or no fix
buildAddUnpackFix(run, workdir) ==
    LET d == extractFixData(run, workdir) IN
    [hasFix |-> d.ok, url |-> d.url, dest |-> d.dest]

RECURSIVE checkUnpack(_, _, _, _)
\* PreferAddUnpackRule.Check: the walk over the stages and their commands.
\* out.trace[i] is the value of workdir once instruction i has been handled.
checkUnpack(file, i, workdir, out) ==
    IF i > Len(file) THEN out
    ELSE LET cmd == file[i]
             wd == IF cmd.kind = "FROM" THEN enterStage(workdir)
                   ELSE IF cmd.kind = "WORKDIR" THEN applyWorkdir(workdir, cmd.path)
                   ELSE workdir
             vs == IF cmd.kind = "RUN" /\ hasRemoteArchiveExtraction(cmd)
                   THEN <<[line |-> i, fix |-> buildAddUnpackFix(cmd, wd)]>>
                   ELSE <<>>
         IN checkUnpack(file, i + 1, wd,
                        [violations |-> out.violations \o vs, trace |-> Append(out.trace, wd)])

PreferAddUnpackCheck(file) ==
    checkUnpack(file, 1, RootDir, [violations |-> <<>>, trace |-> <<>>])

ArchiveUrl == "https://example.com/a.tar.gz"

UnpackInstructions ==
    { FromInstr,
      Workdir(Path(TRUE, <<"app">>)),
      Workdir(Path(FALSE, <<"sub">>)),
      Workdir(Path(FALSE, <<"..">>)),
      Workdir(Path(TRUE, <<"a", "..", ".", "b">>)),
      \* RUN curl <url> | tar -xz
      Run({"curl", "tar"}, {ArchiveUrl}, <<Tar(TRUE, NoDest)>>),
      \* RUN curl <url> | tar -xz -C /opt
      Run({"curl", "tar"}, {ArchiveUrl}, <<Tar(TRUE, Path(TRUE, <<"opt">>))>>),
      \* RUN curl <url> | tar -xz && make
      Run({"curl", "tar", "make"}, {ArchiveUrl}, <<Tar(TRUE, NoDest)>>),
      \* RUN echo
      Run({"echo"}, {}, <<>>) }

\* one more instruction; a Dockerfile starts with FROM
WriteUnpackLine(ins) ==
    /\ upc = "write"
    /\ Len(unpackFile) < MaxUnpackLines
    /\ unpackFile = <<>> => ins = FromInstr
    /\ unpackFile' = Append(unpackFile, ins)
    /\ UNCHANGED <<upc, unpackOut>>
    /\ UNCHANGED <<fixVars, procVars, shellVars, extVars>>
    /\ UNCHANGED <<lspVars, storeVars, tailVars, dispVars>>

\* the rule runs on the file
CheckUnpack ==
    /\ upc = "write"
    /\ unpackFile # <<>>
    /\ upc' = "checked"
    /\ unpackOut' = PreferAddUnpackCheck(unpackFile)
    /\ UNCHANGED unpackFile
    /\ UNCHANGED <<fixVars, procVars, shellVars, extVars>>
    /\ UNCHANGED <<lspVars, storeVars, tailVars, dispVars>>

WriteUnpackAny == \E ins \in UnpackInstructions : WriteUnpackLine(ins)

NextUnpack == WriteUnpackAny \/ CheckUnpack

SpecUnpack == Init /\ [][NextUnpack]_vars

IsName(c) == c \notin {".", "..", ""}

\* the components of comps[a..b] that are names, and those that are ".."
NamesIn(comps, a, b) == Cardinality({k \in a..b : IsName(comps[k])})
DotDotsIn(comps, a, b) == Cardinality({k \in a..b : comps[k] = ".."})

\* POSIX resolution of a rooted path, stated per component: a name stays
\* unless some later stretch of the path climbs above it
Stays(comps, k) ==
    /\ IsName(comps[k])
    /\ \A j \in (k + 1)..Len(comps) : DotDotsIn(comps, k + 1, j) <= NamesIn(comps, k + 1, j)

Resolved(comps) ==
    LET keep == [k \in 1..Len(comps) |-> Stays(comps, k)]
        idx == SeqFilterIdx(keep, 1, Len(comps))
    IN [n \in 1..Len(idx) |-> comps[idx[n]]]

\* the working directory in effect before instruction i of its stage
WorkdirBefore(i) ==
    IF i = 1 \/ unpackFile[i].kind = "FROM" THEN RootDir ELSE unpackOut.trace[i - 1]

\* C23: within each stage the working directory begins at / and, after
\* each WORKDIR, is a cleaned POSIX path: an absolute argument replaces the
\* current directory, a relative one is joined onto it; nothing carries
\* over from one stage to the next
C23_WorkdirTrace ==
    upc = "checked" =>
        /\ Len(unpackOut.trace) = Len(unpackFile)
        /\ \A i \in 1..Len(unpackFile) :
            LET cmd == unpackFile[i]
                now == unpackOut.trace[i] IN
            /\ now.abs /\ \A k \in 1..Len(now.comps) : IsName(now.comps[k])
            /\ cmd.kind = "FROM" => now = RootDir
            /\ cmd.kind = "RUN" => now = WorkdirBefore(i)
            /\ cmd.kind = "WORKDIR" =>
                  now.comps = IF cmd.path.abs
                              THEN Resolved(cmd.path.comps)
                              ELSE Resolved(WorkdirBefore(i).comps \o cmd.path.comps)

\* a second stage starts after the first one moved into a directory with a
\* relative WORKDIR, and moves on its own
C23_Witness ==
    /\ upc = "checked"
    /\ \E i, j, k \in 1..Len(unpackFile) :
        /\ i < j /\ j < k
        /\ unpackFile[i].kind = "WORKDIR" /\ ~unpackFile[i].path.abs
        /\ unpackOut.trace[i] # RootDir
        /\ unpackFile[j].kind = "FROM"
        /\ unpackFile[k].kind = "WORKDIR" /\ unpackFile[k].path.comps = <<"a", "..", ".", "b">>
        /\ unpackOut.trace[k] = Path(TRUE, <<"b">>)

\* violations whose fix was built from a RUN whose tar commands name no directory
FixesWithoutDest ==
    {n \in 1..Len(unpackOut.violations) :
        /\ unpackOut.violations[n].fix.hasFix
        /\ \A t \in 1..Len(unpackFile[unpackOut.violations[n].line].tars) :
              unpackFile[unpackOut.violations[n].line].tars[t].dest = NoDest}

-----------------------------------------------------------------------------
(* lintFile's rule loop, the locations of the violations it returns and    *)
(* their conversion to LSP ranges.  A registered rule is what its Check    *)
(* does on the file: it panics, or it returns violations at locations      *)
(* built by the constructors of rules/location.go from lines and parser    *)
(* ranges of the file.                                                     *)

\* Lines of the linted file
MaxFileLines == 2

\* Largest column of a parser range
MaxColumn == 1

\* Registered rules
MaxRules == 2

Position(line, column) == [line |-> line, column |-> column]
Location(start, end) == [start |-> start, end |-> end]

NewFileLocation == Location(Position(0, 0), Position(0, 0))
NewLineLocation(line) == Location(Position(line, 0), Position(0, 0))
NewRangeLocation(startLine, startCol, endLine, endCol) ==
    Location(Position(startLine, startCol), Position(endLine, endCol))
\* r: a BuildKit parser.Range
NewLocationFromRange(r) ==
    Location(Position(r.start.line, r.start.character), Position(r.end.line, r.end.character))

IsFileLevel(l) == l.start.line = 0
IsPointLocation(l) == l.end.line = 0 /\ l.end.column = 0

clampUint32(v) == IF v < 0 THEN 0 ELSE v

\* mutant of violationRange: the end is always converted from loc.End
violationRangeFromEnd(loc) ==
    [start |-> [line |-> clampUint32(loc.start.line - 1), character |-> clampUint32(loc.start.column)],
     end |-> [line |-> clampUint32(loc.end.line - 1), character |-> clampUint32(loc.end.column)]]

\* violationRange: 1-based lines to 0-based; a point or empty range is
\* stretched by 1000 characters
violationRange(loc) ==
    IF IsFileLevel(loc)
    THEN [start |-> [line |-> 0, character |-> 0], end |-> [line |-> 0, character |-> 0]]
    ELSE LET startLine == clampUint32(loc.start.line - 1)
             startChar == clampUint32(loc.start.column)
             endLine == IF IsPointLocation(loc) THEN startLine ELSE clampUint32(loc.end.line - 1)
             endChar == IF IsPointLocation(loc) THEN startChar ELSE clampUint32(loc.end.column)
         IN [start |-> [line |-> startLine, character |-> startChar],
             end |-> [line |-> endLine,
                      character |-> IF endLine = startLine /\ endChar = startChar
                                    THEN startChar + 1000 ELSE endChar]]

convertDiagnostics(vs) == [i \in 1..Len(vs) |-> violationRange(vs[i].location)]

RECURSIVE runRules(_, _, _)
\* lintFile: for _, rule := range rules.All() { violations = append(violations,
\* rule.Check(input)...) }.  Nothing recovers from a panic of rule.Check: it
\* unwinds lintFile, which returns nothing.
runRules(rs, i, acc) ==
    IF i > Len(rs) THEN [crashed |-> FALSE, violations |-> acc]
    ELSE IF rs[i].panics THEN [crashed |-> TRUE, violations |-> <<>>]
    ELSE runRules(rs, i + 1, acc \o rs[i].violations)

\* lintFile and publishDiagnostics' conversion of what it returned
lintFileRules(rs) ==
    LET r == runRules(rs, 1, <<>>) IN
    [crashed |-> r.crashed, violations |-> r.violations, warnings |-> <<>>,
     diagnostics |-> IF r.crashed THEN <<>> ELSE convertDiagnostics(r.violations)]

\* parser.Range values of a file of n lines
ParserRanges(n) ==
    {[start |-> [line |-> l1, character |-> c1], end |-> [line |-> l2, character |-> c2]] :
        l1 \in 1..n, l2 \in 1..n, c1 \in 0..MaxColumn, c2 \in 0..MaxColumn}

InFileRanges(n) ==
    {r \in ParserRanges(n) :
        \/ r.start.line < r.end.line
        \/ r.start.line = r.end.line /\ r.start.character <= r.end.character}

RuleLocations(n) ==
    {NewFileLocation}
    \cup {NewLineLocation(l) : l \in 1..n}
    \cup {NewLocationFromRange(r) : r \in InFileRanges(n)}
    \cup {NewRangeLocation(r.start.line, r.start.character, r.end.line, r.end.character) :
            r \in InFileRanges(n)}

RuleCheck(code, panics, locs) ==
    [code |-> code, panics |-> panics,
     violations |-> [i \in 1..Len(locs) |-> [rule |-> code, location |-> locs[i]]]]

\* the file gets one more line
AddFileLine ==
    /\ dpc = "setup" /\ ruleRuns = <<>>
    /\ lineCount < MaxFileLines
    /\ lineCount' = lineCount + 1
    /\ UNCHANGED <<dpc, ruleRuns, dispOut>>
    /\ UNCHANGED <<fixVars, procVars, shellVars, extVars>>
    /\ UNCHANGED <<lspVars, storeVars, tailVars, unpackVars>>

\* what the next registered rule does on the file
RegisterRule(panics, locs) ==
    /\ dpc = "setup"
    /\ Len(ruleRuns) < MaxRules
    /\ ruleRuns' = Append(ruleRuns,
                          RuleCheck(IF ruleRuns = <<>> THEN "rule1" ELSE "rule2", panics, locs))
    /\ UNCHANGED <<dpc, lineCount, dispOut>>
    /\ UNCHANGED <<fixVars, procVars, shellVars, extVars>>
    /\ UNCHANGED <<lspVars, storeVars, tailVars, unpackVars>>

\* lintFile runs
LintRules ==
    /\ dpc = "setup"
    /\ ruleRuns # <<>>
    /\ dpc' = "linted"
    /\ dispOut' = lintFileRules(ruleRuns)
    /\ UNCHANGED <<lineCount, ruleRuns>>
    /\ UNCHANGED <<fixVars, procVars, shellVars, extVars>>
    /\ UNCHANGED <<lspVars, storeVars, tailVars, unpackVars>>

RegisterPanicking == RegisterRule(TRUE, <<>>)
RegisterReporting ==
    \E locs \in {<<>>} \cup {<<l>> : l \in RuleLocations(lineCount)} : RegisterRule(FALSE, locs)

NextDispatch == AddFileLine \/ RegisterPanicking \/ RegisterReporting \/ LintRules

SpecDispatch == Init /\ [][NextDispatch]_vars

Emitted(code) == {i \in 1..Len(dispOut.violations) : dispOut.violations[i].rule = code}

\* C21: a rule whose check panics is trapped by the dispatcher: only that
\* rule's violations are dropped, an internal warning is recorded, and the
\* violations of every other rule for the file are still emitted
C21_PanicIsTrapped ==
    dpc = "linted" =>
        \A i \in 1..Len(ruleRuns) :
            IF ruleRuns[i].panics
            THEN /\ Emitted(ruleRuns[i].code) = {}
                 /\ \E w \in 1..Len(dispOut.warnings) : dispOut.warnings[w] = ruleRuns[i].code
            ELSE /\ ~dispOut.crashed
                 /\ Cardinality(Emitted(ruleRuns[i].code)) = Len(ruleRuns[i].violations)

PosLeq(a, b) == a.line < b.line \/ (a.line = b.line /\ a.column <= b.column)

====
